---- MODULE Spec2Model ----
(***************************************************************************)
(* A model of the saturday SAT solver (saturday.go): simplify, newSolver,  *)
(* the decide / bcp / resolveConflict loop of solver.solve, the literal    *)
(* heap driven by container/heap, and the result assembly of Solve.        *)
(*                                                                         *)
(* Go slices are 0-based; TLA+ sequences are 1-based.  Literals, variable  *)
(* indices, clause indices and heap positions keep their 0-based Go values *)
(* and are shifted by one where a sequence is indexed.                     *)
(***************************************************************************)
EXTENDS Integers, Sequences, FiniteSets, TLC

\* ------------------------------------------------------------------ bounds
\* The inputs are all problems up to this weight: a clause weighs 1 plus the
\* weights of its literals, a literal weighs the magnitude of its variable
\* (the literal 0 weighs 1).
MaxWeight == 7

\* The problems handed to WriteDIMACS are all problems up to this weight.
MaxCnfWeight == 6

\* The texts handed to ParseDIMACS have at most this many lines.
MaxLines == 3

\* ------------------------------------------------------- program constants
unassigned == 0
assnTrue == 1
assnFalse == 2
assnTrueSecond == 5
assnFalseSecond == 6

PanicZero == "zero var passed to Solve"
PanicIncomplete == "incomplete solution"
PanicBadWatch == "bad watch var state"
PanicPush == "push of literal that's already in the unassigned queue"
PanicDelete == "delete of nonexistent unassigned var"

\* ------------------------------------------------------------ small helpers
abs(n) == IF n < 0 THEN -n ELSE n

Min2(a, b) == IF a < b THEN a ELSE b

\* bitwise helpers on the 3-bit assnVal values
And3(a) == a % 4
And4(a) == (a \div 4) % 2
Xor5(a) ==
    LET b0 == a % 2
        b1 == (a \div 2) % 2
        b2 == (a \div 4) % 2
    IN (1 - b0) + 2 * b1 + 4 * (1 - b2)

\* literal.assn(): assnVal(l&1) + 1
litAssn(l) == (l % 2) + 1

\* assnVal.inv(): a ^ 3 (used on assnTrue / assnFalse only)
inv(a) ==
    LET b0 == a % 2
        b1 == (a \div 2) % 2
    IN (1 - b0) + 2 * (1 - b1) + 4 * ((a \div 4) % 2)

\* lit ^ 1
neg1(l) == IF l % 2 = 0 THEN l + 1 ELSE l - 1

Range(s) == {s[k] : k \in 1..Len(s)}

RECURSIVE SortSet(_)
SortSet(S) ==
    IF S = {} THEN <<>>
    ELSE LET m == CHOOSE x \in S : \A y \in S : x <= y
         IN <<m>> \o SortSet(S \ {m})

IndexOf(s, x) == CHOOSE k \in 1..Len(s) : s[k] = x

Swap(s, i, j) == [s EXCEPT ![i] = s[j], ![j] = s[i]]

\* ---------------------------------------------------------------- simplify
\* a variant of dedup that drops only a repeat of the literal just before it
RECURSIVE dedupAdjacent(_, _)
dedupAdjacent(cls, k) ==
    IF k > Len(cls) THEN <<>>
    ELSE IF k > 1 /\ cls[k - 1] = cls[k]
         THEN dedupAdjacent(cls, k + 1)
         ELSE <<cls[k]>> \o dedupAdjacent(cls, k + 1)

\* lines 181-195: the copy of one input clause without repeated literals
RECURSIVE dedup(_, _)
dedup(cls, k) ==
    IF k > Len(cls) THEN <<>>
    ELSE IF \E m \in 1..(k - 1) : cls[m] = cls[k]
         THEN dedup(cls, k + 1)
         ELSE <<cls[k]>> \o dedup(cls, k + 1)

\* a variant of hasZero that meets a zero literal only in the clauses before
\* the first empty clause
hasZeroBeforeEmpty(problem) ==
    \E i \in 1..Len(problem) :
        /\ \E k \in 1..Len(problem[i]) : problem[i][k] = 0
        /\ \A m \in 1..(i - 1) : Len(problem[m]) > 0

\* line 184: any zero literal makes the first loop panic
hasZero(problem) ==
    \E i \in 1..Len(problem) : \E k \in 1..Len(problem[i]) : problem[i][k] = 0

\* line 193: the vars map after the first loop
initVars(problem) ==
    [v \in UNION {{abs(problem[i][k]) : k \in 1..Len(problem[i])} :
                    i \in 1..Len(problem)}
        |-> unassigned]

\* a variant of copyClauses that builds clause1 in the caller's array
\* (clause1 := cls[:0]) and not in a fresh one
copyClausesInPlace(problem) ==
    LET n == Len(problem)
        d(i) == dedup(problem[i], 1)
    IN [mem |-> [a \in 1..(2 * n) |->
                    IF a <= n
                    THEN d(a) \o SubSeq(problem[a], Len(d(a)) + 1, Len(problem[a]))
                    ELSE <<>>],
        simplified |-> [i \in 1..n |-> [a |-> i, n |-> Len(d(i))]]]

\* lines 179-196: memory and slices after the first loop.  Arrays 1..n hold
\* the caller's clauses; clause1 of input clause i is built by append from
\* nil, a fresh array n+i.
copyClauses(problem) ==
    LET n == Len(problem)
    IN [mem |-> [a \in 1..(2 * n) |->
                    IF a <= n THEN problem[a]
                    ELSE dedup(problem[a - n], 1)],
        simplified |-> [i \in 1..n |->
                    [a |-> n + i, n |-> Len(dedup(problem[i], 1))]]]

\* a variant of filterClause that takes a false literal for a true one:
\* the clause is dropped at the first literal that is false
RECURSIVE filterClauseDropsFalse(_, _, _, _, _)
filterClauseDropsFalse(mem, vars, cls, k, acc) ==
    IF k > cls.n THEN acc
    ELSE LET v == acc.mem[cls.a][k]
             assn == vars[abs(v)]
         IN IF assn = unassigned
            THEN filterClauseDropsFalse(mem, vars, cls, k + 1,
                    [acc EXCEPT !.mem[cls.a][acc.j + 1] = v, !.j = acc.j + 1])
            ELSE IF (assn = assnTrue) # (v > 0)
                 THEN [acc EXCEPT !.changed = TRUE, !.sat = TRUE]
                 ELSE filterClauseDropsFalse(mem, vars, cls, k + 1,
                        [acc EXCEPT !.changed = TRUE])

\* lines 241-257: the in-place filter of one clause of length >= 2.
\* acc.mem is written at position j while position k >= j is read.
RECURSIVE filterClause(_, _, _, _, _)
filterClause(mem, vars, cls, k, acc) ==
    \* acc = [mem, j, changed, sat]
    IF k > cls.n THEN acc
    ELSE LET v == acc.mem[cls.a][k]
             assn == vars[abs(v)]
         IN IF assn = unassigned
            THEN filterClause(mem, vars, cls, k + 1,
                    [acc EXCEPT !.mem[cls.a][acc.j + 1] = v, !.j = acc.j + 1])
            ELSE IF (assn = assnTrue) = (v > 0)
                 THEN [acc EXCEPT !.changed = TRUE, !.sat = TRUE]
                 ELSE filterClause(mem, vars, cls, k + 1,
                        [acc EXCEPT !.changed = TRUE])

\* lines 212-258: one pass of clauseLoop over sv.simplified.
\* st = [mem, vars, simplified, out, changed, unsat]
RECURSIVE clauseLoop(_, _)
clauseLoop(st, k) ==
    IF k > Len(st.simplified) THEN st
    ELSE LET cls == st.simplified[k] IN
         IF cls.n = 0 THEN [st EXCEPT !.unsat = TRUE]
         ELSE IF cls.n = 1 THEN
            LET lit == st.mem[cls.a][1]
                assn == IF lit < 0 THEN assnFalse ELSE assnTrue
                v == abs(lit)
            IN IF st.vars[v] # unassigned /\ st.vars[v] # assn
               THEN [st EXCEPT !.unsat = TRUE]
               ELSE clauseLoop([st EXCEPT !.vars[v] = assn, !.changed = TRUE],
                               k + 1)
         ELSE
            LET f == filterClause(st.mem, st.vars, cls, 1,
                        [mem |-> st.mem, j |-> 0, changed |-> st.changed,
                         sat |-> FALSE])
            IN IF f.sat
               THEN clauseLoop([st EXCEPT !.mem = f.mem, !.changed = f.changed],
                               k + 1)
               ELSE clauseLoop([st EXCEPT !.mem = f.mem, !.changed = f.changed,
                                   !.out = Append(st.out, [a |-> cls.a, n |-> f.j])],
                               k + 1)

\* a variant of fixpoint that makes one pass only, changed or not
fixpointOnePass(st) ==
    IF Len(st.simplified) = 0
    THEN [st EXCEPT !.simpleSat = assnTrue,
                    !.vars = [v \in DOMAIN st.vars |->
                                IF st.vars[v] = unassigned THEN assnTrue
                                ELSE st.vars[v]]]
    ELSE LET p == clauseLoop([mem |-> st.mem, vars |-> st.vars,
                              simplified |-> st.simplified, out |-> <<>>,
                              changed |-> FALSE, unsat |-> FALSE], 1)
         IN IF p.unsat
            THEN [st EXCEPT !.mem = p.mem, !.vars = p.vars,
                            !.simpleSat = assnFalse]
            ELSE [st EXCEPT !.mem = p.mem, !.vars = p.vars,
                            !.simplified = p.out]

\* lines 197-260: the fixpoint loop.  st = [mem, vars, simplified, simpleSat]
RECURSIVE fixpoint(_)
fixpoint(st) ==
    IF Len(st.simplified) = 0
    THEN [st EXCEPT !.simpleSat = assnTrue,
                    !.vars = [v \in DOMAIN st.vars |->
                                IF st.vars[v] = unassigned THEN assnTrue
                                ELSE st.vars[v]]]
    ELSE LET p == clauseLoop([mem |-> st.mem, vars |-> st.vars,
                              simplified |-> st.simplified, out |-> <<>>,
                              changed |-> FALSE, unsat |-> FALSE], 1)
         IN IF p.unsat
            THEN [st EXCEPT !.mem = p.mem, !.vars = p.vars,
                            !.simpleSat = assnFalse]
            ELSE IF p.changed
                 THEN fixpoint([st EXCEPT !.mem = p.mem, !.vars = p.vars,
                                          !.simplified = p.out])
                 ELSE [st EXCEPT !.mem = p.mem, !.vars = p.vars,
                                 !.simplified = p.out]

\* a variant of makeSourceVars that lists only the variables left unassigned
makeSourceVarsUnassigned(vars) ==
    LET vs == SortSet({v \in DOMAIN vars : vars[v] = unassigned})
    IN [k \in 1..Len(vs) |-> [v |-> vs[k], assn |-> vars[vs[k]], i |-> 0]]

\* lines 261-267: sourceVars sorted by v (built on every path that reaches
\* line 261; the two early returns of lines 218 and 232 leave it nil)
makeSourceVars(vars) ==
    LET vs == SortSet(DOMAIN vars)
    IN [k \in 1..Len(vs) |-> [v |-> vs[k], assn |-> vars[vs[k]], i |-> 0]]

\* lines 261-268: what simplify returns once the fixpoint loop has ended in r
simplifyReturn(r) ==
    [mem |-> r.mem,
     simpleSat |-> r.simpleSat,
     simplified |-> r.simplified,
     sourceVars |-> IF r.simpleSat = assnFalse THEN <<>>
                    ELSE makeSourceVars(r.vars)]

\* lines 178-196: the state the fixpoint loop starts in
simplifyStart(problem, c) ==
    [mem |-> c.mem, vars |-> initVars(problem),
     simplified |-> c.simplified, simpleSat |-> unassigned]

\* simplify(problem), for a problem without a zero literal
simplify(problem) ==
    simplifyReturn(fixpoint(simplifyStart(problem, copyClauses(problem))))

\* the literals a slice of the memory denotes
sliceLits(mem, cls) == SubSeq(mem[cls.a], 1, cls.n)

\* ----------------------------------------------------------------- litHeap
\* A heap is the sequence h.lits of literals; h.m[lit] is the position of lit
\* in it (Swap, Push and Pop keep the map and the slice in step).  w is the
\* watch-list table the heap refers to (sv.watches).

inHeap(h, lit) == \E k \in 1..Len(h) : h[k] = lit

\* h.m[lit], 0-based
heapPos(h, lit) == IndexOf(h, lit) - 1

\* litHeap.Less(i, j), lines 83-86
Less(h, w, i, j) == Len(w[h[i + 1] + 1]) > Len(w[h[j + 1] + 1])

\* litHeap.Swap(i, j), lines 88-96
heapSwap(h, i, j) == Swap(h, i + 1, j + 1)

\* container/heap.up driven by litHeap.Less and litHeap.Swap
RECURSIVE up(_, _, _)
up(h, w, j) ==
    LET i == IF j = 0 THEN 0 ELSE (j - 1) \div 2
    IN IF i = j \/ ~Less(h, w, j, i) THEN h
       ELSE up(heapSwap(h, i, j), w, i)

\* container/heap.down; the result carries the final position i
RECURSIVE down(_, _, _, _)
down(h, w, i, n) ==
    LET j1 == 2 * i + 1
    IN IF j1 >= n THEN [h |-> h, i |-> i]
       ELSE LET j == IF j1 + 1 < n /\ Less(h, w, j1 + 1, j1) THEN j1 + 1 ELSE j1
            IN IF ~Less(h, w, j, i) THEN [h |-> h, i |-> i]
               ELSE down(heapSwap(h, i, j), w, j, n)

\* heap.Push: litHeap.Push (lines 98-103), then up
heapPush(h, w, lit) == up(Append(h, lit), w, Len(h))

\* heap.Pop: Swap(0, n), down(0, n), litHeap.Pop (lines 105-111)
heapPop(h, w) ==
    LET n == Len(h) - 1
        d == down(heapSwap(h, 0, n), w, 0, n)
    IN [h |-> SubSeq(d.h, 1, n), lit |-> d.h[n + 1]]

\* heap.Remove(i)
heapRemove(h, w, i) ==
    LET n == Len(h) - 1
    IN IF n # i
       THEN LET s == heapSwap(h, i, n)
                d == down(s, w, i, n)
                r == IF d.i > i THEN d.h ELSE up(d.h, w, i)
            IN SubSeq(r, 1, n)
       ELSE SubSeq(h, 1, n)

\* heap.Fix(i)
heapFix(h, w, i) ==
    LET d == down(h, w, i, Len(h))
    IN IF d.i > i THEN d.h ELSE up(d.h, w, i)

\* updateUnassigned, lines 599-605
updateUnassigned(h, w, lit) ==
    IF inHeap(h, lit) THEN heapFix(h, w, heapPos(h, lit))
    ELSE heapPush(h, w, lit)

\* --------------------------------------------------------------- newSolver
\* lines 120-130: the variables of the reduced clauses, sorted
makeOrigVars(mem, simplified) ==
    SortSet(UNION {{abs(l) : l \in Range(sliceLits(mem, simplified[i]))} :
                        i \in 1..Len(simplified)})

\* lines 131-133 and the map lookup vars[v]: the index of v in origVars, and
\* the zero value 0 for a variable the map does not hold
varIndex(origVars, v) ==
    IF \E k \in 1..Len(origVars) : origVars[k] = v
    THEN IndexOf(origVars, v) - 1
    ELSE 0

\* lines 134-138
linkSourceVars(sourceVars, origVars) ==
    [k \in 1..Len(sourceVars) |->
        IF sourceVars[k].assn = unassigned
        THEN [sourceVars[k] EXCEPT !.i = varIndex(origVars, sourceVars[k].v)]
        ELSE sourceVars[k]]

\* lines 144-152: the literal of a signed input variable
makeLit(origVars, v) ==
    IF v < 0 THEN 2 * varIndex(origVars, -v) + 1
    ELSE 2 * varIndex(origVars, v)

\* lines 141-153
makeClauses(mem, simplified, origVars) ==
    [i \in 1..Len(simplified) |->
        LET cls == sliceLits(mem, simplified[i])
        IN [j \in 1..Len(cls) |-> makeLit(origVars, cls[j])]]

\* lines 154-156: clause i (0-based) joins the lists of its first two literals
\* a variant of clausesWatching that takes the first three literals of a
\* clause as watched
RECURSIVE clausesWatchingThree(_, _, _)
clausesWatchingThree(clauses, lit, i) ==
    IF i > Len(clauses) THEN <<>>
    ELSE (IF \E j \in 1..Min2(3, Len(clauses[i])) : clauses[i][j] = lit
          THEN <<i - 1>> ELSE <<>>)
         \o clausesWatchingThree(clauses, lit, i + 1)

RECURSIVE clausesWatching(_, _, _)
clausesWatching(clauses, lit, i) ==
    IF i > Len(clauses) THEN <<>>
    ELSE (IF \E j \in 1..Min2(2, Len(clauses[i])) : clauses[i][j] = lit
          THEN <<i - 1>> ELSE <<>>)
         \o clausesWatching(clauses, lit, i + 1)

makeWatches(clauses, nVars) ==
    [l \in 1..(2 * nVars) |-> clausesWatching(clauses, l - 1, 1)]

\* lines 161-165: the literals with a non-empty watch list are pushed in
\* ascending order; pushUnassigned's guard cannot fire on distinct literals
RECURSIVE makeHeap(_, _, _)
makeHeap(h, w, lit) ==
    IF lit >= Len(w) THEN h
    ELSE IF Len(w[lit + 1]) > 0 THEN makeHeap(heapPush(h, w, lit), w, lit + 1)
         ELSE makeHeap(h, w, lit + 1)

\* ------------------------------------------------------------------ search
\* The solver fields the search works on travel in a record
\*   s = [assignments, watches, unassigned, decisions, implications,
\*        propIndex, clauses, numDecisions, numImplications, res]
\* res is "run" while the function is executing, the function's outcome
\* ("ok", "conflict", "sat", "unsat") or the message of the panic it raised.

varOf(lit) == lit \div 2

\* lines 459-465: the first position j >= 2 (1-based: j >= 3) of a literal
\* that is not false under assignments & 3; 0 when there is none
replacementIndex(lits, assignments) ==
    LET cand == {j \in 3..Len(lits) :
                    And3(assignments[varOf(lits[j]) + 1]) # inv(litAssn(lits[j]))}
    IN IF cand = {} THEN 0
       ELSE CHOOSE j \in cand : \A k \in cand : j <= k

\* lines 441-503: watchesLoop for the falsified literal neg, from position i.
\* The clause's literals are distinct, so the replacement literal is never
\* neg and the local slice watches is sv.watches[neg] throughout.
RECURSIVE watchesLoop(_, _, _)
watchesLoop(s, neg, i) ==
    LET watches == s.watches[neg + 1] IN
    IF i >= Len(watches) THEN s
    ELSE
      LET clauseIdx == watches[i + 1]
          lits == s.clauses[clauseIdx + 1]
      IN
      IF lits[1] # neg /\ lits[2] # neg THEN [s EXCEPT !.res = PanicBadWatch]
      ELSE
        LET cl == IF lits[1] = neg THEN Swap(lits, 1, 2) ELSE lits
            s1 == [s EXCEPT !.clauses[clauseIdx + 1] = cl]
            lit0 == cl[1]
            v == varOf(lit0)
            j == replacementIndex(cl, s.assignments)
        IN
        IF And3(s.assignments[v + 1]) = litAssn(lit0)
        THEN watchesLoop(s1, neg, i + 1)
        ELSE IF j # 0
        THEN
          LET lit == cl[j]
              w1 == [s.watches EXCEPT ![lit + 1] = Append(@, clauseIdx)]
              h1 == IF And3(s.assignments[varOf(lit) + 1]) = unassigned
                    THEN updateUnassigned(s.unassigned, w1, lit)
                    ELSE s.unassigned
              last == Len(watches)
              w2 == [w1 EXCEPT ![neg + 1] =
                        SubSeq(Swap(watches, i + 1, last), 1, last - 1)]
          IN watchesLoop([s1 EXCEPT !.watches = w2, !.unassigned = h1,
                                    !.clauses[clauseIdx + 1] = Swap(cl, 2, j)],
                         neg, i)
        ELSE IF s.assignments[v + 1] # unassigned
        THEN [s1 EXCEPT !.res = "conflict"]
        ELSE IF ~inHeap(s.unassigned, lit0)
        THEN [s1 EXCEPT !.assignments[v + 1] = litAssn(lit0),
                        !.res = PanicDelete]
        ELSE watchesLoop(
                [s1 EXCEPT !.assignments[v + 1] = litAssn(lit0),
                           !.unassigned = heapRemove(s.unassigned, s.watches,
                                            heapPos(s.unassigned, lit0)),
                           !.numImplications = @ + 1,
                           !.implications = Append(@, lit0)],
                neg, i + 1)

\* lines 433-504: the literals of one batch, in trail order
RECURSIVE impsLoop(_, _, _)
impsLoop(s, imps, k) ==
    IF k > Len(imps) THEN s
    ELSE LET s1 == watchesLoop(s, neg1(imps[k]), 0)
         IN IF s1.res # "run" THEN s1 ELSE impsLoop(s1, imps, k + 1)

\* lines 419-506
RECURSIVE bcp(_)
bcp(s) ==
    LET imps == SubSeq(s.implications, s.propIndex + 1, Len(s.implications))
    IN IF Len(imps) = 0 THEN [s EXCEPT !.res = "ok"]
       ELSE LET s1 == impsLoop([s EXCEPT !.propIndex = Len(s.implications)],
                               imps, 1)
            IN IF s1.res # "run" THEN s1 ELSE bcp(s1)

\* lines 420-434: the literals the loops of bcp take from the trail when the
\* call returns true, batch after batch: for each of them line 434 visits
\* the watch list of the negation
RECURSIVE examined(_)
examined(s) ==
    LET imps == SubSeq(s.implications, s.propIndex + 1, Len(s.implications))
    IN IF Len(imps) = 0 THEN <<>>
       ELSE imps \o examined([impsLoop([s EXCEPT !.propIndex = Len(s.implications)],
                                       imps, 1) EXCEPT !.res = "run"])

\* lines 381-397: one decision, or SAT when the heap is empty
decide(s) ==
    IF Len(s.unassigned) = 0 THEN [s EXCEPT !.res = "sat"]
    ELSE
      LET p == heapPop(s.unassigned, s.watches)
          lit == p.lit
      IN IF ~inHeap(p.h, neg1(lit))
         THEN [s EXCEPT !.unassigned = p.h, !.res = PanicDelete]
         ELSE [s EXCEPT
                !.unassigned = heapRemove(p.h, s.watches,
                                          heapPos(p.h, neg1(lit))),
                !.assignments[varOf(lit) + 1] = litAssn(lit),
                !.numDecisions = @ + 1,
                !.decisions = Append(@, [implicationIdx |-> Len(s.implications),
                                         lit |-> lit]),
                !.propIndex = Len(s.implications),
                !.implications = Append(@, lit),
                !.res = "ok"]

\* lines 544-553: the topmost decision not yet tried both ways (0-based),
\* -1 when there is none
findDecision(decisions, assignments) ==
    LET cand == {i \in 1..Len(decisions) :
                    And4(assignments[varOf(decisions[i].lit) + 1]) = 0}
    IN IF cand = {} THEN -1
       ELSE (CHOOSE i \in cand : \A k \in cand : i >= k) - 1

\* lines 562-566: the rollback loop, from trail position i (0-based) down to
\* the position above stop
RECURSIVE rollback(_, _, _)
rollback(s, i, stop) ==
    IF i <= stop THEN s
    ELSE LET lit == s.implications[i + 1]
         IN IF inHeap(s.unassigned, lit) THEN [s EXCEPT !.res = PanicPush]
            ELSE rollback(
                    [s EXCEPT !.unassigned = heapPush(@, s.watches, lit),
                              !.assignments[varOf(lit) + 1] = unassigned],
                    i - 1, stop)

\* a variant of resolveConflict that empties the watch list of the literal
\* the flip makes false
resolveConflictClearsWatches(s) ==
    LET di == findDecision(s.decisions, s.assignments)
    IN IF di = -1 THEN [s EXCEPT !.res = "unsat"]
       ELSE
         LET d == s.decisions[di + 1]
             r == rollback(s, Len(s.implications) - 1, d.implicationIdx)
         IN IF r.res # "run" THEN r
            ELSE [r EXCEPT
                    !.implications =
                        [SubSeq(@, 1, d.implicationIdx + 1)
                            EXCEPT ![d.implicationIdx + 1] = neg1(@)],
                    !.decisions =
                        [SubSeq(@, 1, di + 1) EXCEPT ![di + 1].lit = neg1(@)],
                    !.assignments[varOf(d.lit) + 1] = Xor5(@),
                    !.watches[d.lit + 1] = <<>>,
                    !.propIndex = d.implicationIdx,
                    !.res = "ok"]

\* a variant of resolveConflict that leaves the cursor where it is
resolveConflictCursorKept(s) ==
    LET di == findDecision(s.decisions, s.assignments)
    IN IF di = -1 THEN [s EXCEPT !.res = "unsat"]
       ELSE
         LET d == s.decisions[di + 1]
             r == rollback(s, Len(s.implications) - 1, d.implicationIdx)
         IN IF r.res # "run" THEN r
            ELSE [r EXCEPT
                    !.implications =
                        [SubSeq(@, 1, d.implicationIdx + 1)
                            EXCEPT ![d.implicationIdx + 1] = neg1(@)],
                    !.decisions =
                        [SubSeq(@, 1, di + 1) EXCEPT ![di + 1].lit = neg1(@)],
                    !.assignments[varOf(d.lit) + 1] = Xor5(@),
                    !.res = "ok"]

\* lines 540-574
resolveConflict(s) ==
    LET di == findDecision(s.decisions, s.assignments)
    IN IF di = -1 THEN [s EXCEPT !.res = "unsat"]
       ELSE
         LET d == s.decisions[di + 1]
             r == rollback(s, Len(s.implications) - 1, d.implicationIdx)
         IN IF r.res # "run" THEN r
            ELSE [r EXCEPT
                    !.implications =
                        [SubSeq(@, 1, d.implicationIdx + 1)
                            EXCEPT ![d.implicationIdx + 1] = neg1(@)],
                    !.decisions =
                        [SubSeq(@, 1, di + 1) EXCEPT ![di + 1].lit = neg1(@)],
                    !.assignments[varOf(d.lit) + 1] = Xor5(@),
                    !.propIndex = d.implicationIdx,
                    !.res = "ok"]

\* a variant of solnValue that reads the values in the order unassigned,
\* false, true
solnValueFalseFirst(sourceVars, assignments, k) ==
    LET sv == sourceVars[k]
        assn == IF sv.assn = unassigned THEN And3(assignments[sv.i + 1])
                ELSE sv.assn
    IN IF assn = assnTrue THEN -sv.v
       ELSE IF assn = assnFalse THEN sv.v
       ELSE 0

\* lines 301-316: the assignment Solve reports, or the panic of line 313
solnValue(sourceVars, assignments, k) ==
    LET sv == sourceVars[k]
        assn == IF sv.assn = unassigned THEN And3(assignments[sv.i + 1])
                ELSE sv.assn
    IN IF assn = assnFalse THEN -sv.v
       ELSE IF assn = assnTrue THEN sv.v
       ELSE 0

makeSoln(sourceVars, assignments) ==
    [k \in 1..Len(sourceVars) |-> solnValue(sourceVars, assignments, k)]

\* ------------------------------------------------------------------ DIMACS
\* A text is the sequence of its characters (strings of length one), "\n"
\* included.  The reader and the writer are in-memory buffers that do not
\* fail (strings.Reader, strings.Builder).

Digits == <<"0", "1", "2", "3", "4", "5", "6", "7", "8", "9">>

isDigit(ch) == \E d \in 1..10 : Digits[d] = ch

digitVal(ch) == (CHOOSE d \in 1..10 : Digits[d] = ch) - 1

\* unicode.IsSpace on the characters a text holds
isSpace(ch) == ch \in {" ", "\t", "\r"}

\* fmt's %d
RECURSIVE Itoa(_)
Itoa(n) ==
    IF n < 0 THEN <<"-">> \o Itoa(-n)
    ELSE IF n < 10 THEN <<Digits[n + 1]>>
    ELSE Itoa(n \div 10) \o <<Digits[(n % 10) + 1]>>

\* the value of a string of digits, most significant first
RECURSIVE digitsVal(_, _, _)
digitsVal(tok, k, acc) ==
    IF k > Len(tok) THEN acc
    ELSE digitsVal(tok, k + 1, 10 * acc + digitVal(tok[k]))

\* strconv.Atoi: an optional sign, then one digit or more
Atoi(tok) ==
    LET signed == Len(tok) > 0 /\ tok[1] \in {"+", "-"}
        ds == IF signed THEN Tail(tok) ELSE tok
    IN IF Len(ds) = 0 \/ \E k \in 1..Len(ds) : ~isDigit(ds[k])
       THEN [ok |-> FALSE, n |-> 0]
       ELSE [ok |-> TRUE,
             n |-> IF signed /\ tok[1] = "-" THEN -digitsVal(ds, 1, 0)
                   ELSE digitsVal(ds, 1, 0)]

\* strings.Fields: the maximal runs of non-space characters of line from
\* position k on, cur being the run in progress
RECURSIVE Fields(_, _, _)
Fields(line, k, cur) ==
    IF k > Len(line) THEN (IF cur = <<>> THEN <<>> ELSE <<cur>>)
    ELSE IF isSpace(line[k])
    THEN (IF cur = <<>> THEN <<>> ELSE <<cur>>) \o Fields(line, k + 1, <<>>)
    ELSE Fields(line, k + 1, Append(cur, line[k]))

\* bufio.MaxScanTokenSize: the longest line the Scanner of line 27 takes
MaxScanTokenSize == 65536

\* the "\r" bufio.ScanLines drops from the end of a line
dropCR(line) ==
    IF Len(line) > 0 /\ line[Len(line)] = "\r"
    THEN SubSeq(line, 1, Len(line) - 1)
    ELSE line

\* the positions of the "\n" of the text, in order
lineEnds(text) == SortSet({k \in 1..Len(text) : text[k] = "\n"})

\* the text cut at each "\n" as bufio.ScanLines cuts it, the "\r" still in
\* place: the characters after the last "\n" are a line if there are any
splitLines(text) ==
    LET ends == lineEnds(text)
        n == Len(ends)
        last == IF n = 0 THEN 0 ELSE ends[n]
    IN [i \in 1..(n + (IF last < Len(text) THEN 1 ELSE 0)) |->
           SubSeq(text,
                  IF i = 1 THEN 1 ELSE ends[i - 1] + 1,
                  IF i <= n THEN ends[i] - 1 ELSE Len(text))]

\* bufio.ScanLines: the lines s.Text() yields when none is too long
ScanLines(text) ==
    LET lines == splitLines(text)
    IN [i \in 1..Len(lines) |-> dropCR(lines[i])]

\* The locals of ParseDIMACS travel in a record
\*   st = [vars, nclauses, clauses, clause, err, stop]
\* vars and nclauses are problem.vars and problem.clauses, err is the error
\* returned ("" while there is none), stop is set when the loop is left.
ParseStart ==
    [vars |-> 0, nclauses |-> 0, clauses |-> <<>>, clause |-> <<>>,
     err |-> "", stop |-> FALSE]

\* lines 72-83: the tokens of a clause line
RECURSIVE parseFields(_, _, _)
parseFields(st, fields, k) ==
    IF k > Len(fields) THEN st
    ELSE IF ~Atoi(fields[k]).ok
    THEN [st EXCEPT !.err = "invalid variable", !.stop = TRUE]
    ELSE IF Atoi(fields[k]).n = 0
    THEN parseFields([st EXCEPT !.clauses = Append(@, st.clause),
                                !.clause = <<>>], fields, k + 1)
    ELSE parseFields([st EXCEPT !.clause = Append(@, Atoi(fields[k]).n)],
                     fields, k + 1)

\* lines 45-70: the fields of a problem line
problemFields(st, fields) ==
    IF Len(fields) # 4
    THEN [st EXCEPT !.err = "malformed problem line", !.stop = TRUE]
    ELSE IF fields[1] # <<"p">>
    THEN [st EXCEPT !.err = "problem line starts with unexpected signifier",
                    !.stop = TRUE]
    ELSE IF fields[2] # <<"c", "n", "f">>
    THEN [st EXCEPT !.err = "only cnf supported", !.stop = TRUE]
    ELSE IF ~Atoi(fields[3]).ok
    THEN [st EXCEPT !.err = "malformed #vars in problem line", !.stop = TRUE]
    ELSE IF ~Atoi(fields[4]).ok
    THEN [st EXCEPT !.vars = Atoi(fields[3]).n,
                    !.err = "malformed #clauses in problem line",
                    !.stop = TRUE]
    ELSE IF Atoi(fields[3]).n < 0
    THEN [st EXCEPT !.vars = Atoi(fields[3]).n,
                    !.nclauses = Atoi(fields[4]).n,
                    !.err = "invalid #vars", !.stop = TRUE]
    ELSE IF Atoi(fields[4]).n < 0
    THEN [st EXCEPT !.vars = Atoi(fields[3]).n,
                    !.nclauses = Atoi(fields[4]).n,
                    !.err = "invalid #clauses", !.stop = TRUE]
    ELSE [st EXCEPT !.vars = Atoi(fields[3]).n,
                    !.nclauses = Atoi(fields[4]).n]

\* lines 38-71: a line that starts with 'p'
problemLine(st, line) ==
    IF Len(st.clauses) > 0
    THEN [st EXCEPT !.err = "problem line appears after clauses",
                    !.stop = TRUE]
    ELSE IF st.vars > 0
    THEN [st EXCEPT !.err = "multiple problem lines", !.stop = TRUE]
    ELSE problemFields(st, Fields(line, 1, <<>>))

\* lines 29-83: the body of the loop for one line
parseLine(st, line) ==
    IF Len(line) = 0 \/ line[1] = "c" THEN st
    ELSE IF line = <<"%">> THEN [st EXCEPT !.stop = TRUE]
    ELSE IF line[1] = "p" THEN problemLine(st, line)
    ELSE parseFields(st, Fields(line, 1, <<>>), 1)

\* lines 28-87: the loop over the lines; a line the Scanner does not take
\* ends it with the Scanner's error
RECURSIVE scanLoop(_, _, _)
scanLoop(st, lines, k) ==
    IF st.stop \/ k > Len(lines) THEN st
    ELSE IF Len(lines[k]) >= MaxScanTokenSize
    THEN [st EXCEPT !.err = "bufio.Scanner: token too long", !.stop = TRUE]
    ELSE scanLoop(parseLine(st, dropCR(lines[k])), lines, k + 1)

\* a variant of lastClause that drops the literals still pending
lastClauseDropped(st) == st

\* lines 88-90: the literals still pending form a last clause
lastClause(st) ==
    IF st.err = "" /\ Len(st.clause) > 0
    THEN [st EXCEPT !.clauses = Append(@, st.clause)]
    ELSE st

\* the variables of the clauses, as the map of line 93 holds them
clauseVars(cls) ==
    UNION {{abs(cls[i][k]) : k \in 1..Len(cls[i])} : i \in 1..Len(cls)}

\* lines 92-113: the checks against the problem line
validate(st) ==
    IF st.err # "" \/ st.vars <= 0 THEN st
    ELSE IF \E v \in clauseVars(st.clauses) : v > st.vars
    THEN [st EXCEPT !.err = "formula contains var outside problem line"]
    ELSE IF Cardinality(clauseVars(st.clauses)) > st.vars
    THEN [st EXCEPT !.err = "problem line specifies fewer vars"]
    ELSE IF Len(st.clauses) # st.nclauses
    THEN [st EXCEPT !.err = "problem line specifies other number of clauses"]
    ELSE st

\* lines 114 and the error returns: what ParseDIMACS returns
parseReturn(st) ==
    IF st.err # "" THEN [ok |-> FALSE, clauses |-> <<>>, err |-> st.err]
    ELSE [ok |-> TRUE, clauses |-> st.clauses, err |-> ""]

\* ParseDIMACS(r), lines 20-115, r holding text
ParseDIMACS(text) ==
    parseReturn(validate(lastClause(
        scanLoop(ParseStart, splitLines(text), 1))))

\* lines 122-135: max, 0 when there is no literal
maxVar(S) == IF S = {} THEN 0 ELSE CHOOSE v \in S : \A u \in S : u <= v

\* lines 121-139: the error WriteDIMACS returns before it writes, "" if none
writeCheck(p) ==
    IF \E i \in 1..Len(p) : \E k \in 1..Len(p[i]) : p[i][k] = 0
    THEN "problem contains a 0 value"
    ELSE IF maxVar(clauseVars(p)) # Cardinality(clauseVars(p))
    THEN "problem has other number of variables than largest var"
    ELSE ""

\* lines 145-153: the literals of a clause from position lo to hi, a space
\* before each but the first of the clause
RECURSIVE writeLits(_, _, _)
writeLits(cls, lo, hi) ==
    IF lo > hi THEN <<>>
    ELSE IF lo = hi
    THEN (IF lo > 1 THEN <<" ">> ELSE <<>>) \o Itoa(cls[lo])
    ELSE writeLits(cls, lo, (lo + hi) \div 2)
         \o writeLits(cls, (lo + hi) \div 2 + 1, hi)

\* a variant of writeClause that writes no line for a clause without
\* literals
writeClauseSkipEmpty(cls) ==
    IF Len(cls) = 0 THEN <<>>
    ELSE writeLits(cls, 1, Len(cls)) \o <<" ", "0", "\n">>

\* lines 145-160: the line of one clause
writeClause(cls) ==
    writeLits(cls, 1, Len(cls)) \o (IF Len(cls) > 0 THEN <<" ">> ELSE <<>>)
    \o <<"0", "\n">>

\* lines 144-161
RECURSIVE writeClauses(_, _)
writeClauses(p, i) ==
    IF i > Len(p) THEN <<>>
    ELSE writeClause(p[i]) \o writeClauses(p, i + 1)

\* line 141: the header
writeHeader(p) ==
    <<"p", " ", "c", "n", "f", " ">> \o Itoa(Cardinality(clauseVars(p)))
    \o <<" ">> \o Itoa(Len(p)) \o <<"\n">>

\* WriteDIMACS(w, problem), lines 120-163: the error returned and the
\* characters w received
WriteDIMACS(p) ==
    IF writeCheck(p) # "" THEN [err |-> writeCheck(p), out |-> <<>>]
    ELSE [err |-> "", out |-> writeHeader(p) \o writeClauses(p, 1)]

\* --------------------------------------------------------------- the state
VARIABLES
    pc,              \* position of the call Solve(problem)
    problem,         \* the argument as the caller passed it
    mem,             \* the int arrays: 1..n the caller's clauses, then clause1's
    simpleSat,       \* sv.simpleSat
    simplified,      \* sv.simplified, slices [a, n] of mem
    sourceVars,      \* sv.sourceVars
    origVars,        \* sv.origVars
    assignments,     \* sv.assignments
    watches,         \* sv.watches
    unassignedHeap,  \* sv.unassigned.lits (sv.unassigned.m is the position)
    decisions,       \* sv.decisions
    implications,    \* sv.implications
    propIndex,       \* sv.propIndex
    clauses,         \* sv.clauses[i].lits
    numDecisions,    \* sv.numDecisions
    numImplications, \* sv.numImplications
    ok,              \* the value sv.solve() returned
    result,          \* what Solve returned: [sat, assignment]
    panicMsg,        \* the message of the panic that ended the call
    flips,           \* history: how often resolveConflict has flipped each
                     \* decision of sv.decisions since it was pushed
    earlier,         \* history: the input and the outcome of each call of
                     \* Solve that has ended before the present one
    dimacsPc,        \* position of the DIMACS calls
    cnf,             \* the problem handed to WriteDIMACS
    text,            \* the characters of the buffer written and read
    writeErr,        \* the error WriteDIMACS returned, "" for nil
    parseResult      \* what ParseDIMACS returned: [ok, clauses, err]

solverVars == <<pc, problem, mem, simpleSat, simplified, sourceVars, origVars,
                assignments, watches, unassignedHeap, decisions, implications,
                propIndex, clauses, numDecisions, numImplications, ok, result,
                panicMsg, flips, earlier>>

dimacsVars == <<dimacsPc, cnf, text, writeErr, parseResult>>

vars == <<solverVars, dimacsVars>>

searchVars == <<assignments, watches, unassignedHeap, decisions, implications,
                propIndex, clauses, numDecisions, numImplications>>

simplifyVars == <<mem, simpleSat, simplified, sourceVars, origVars>>

\* the solver fields as the record the search operators take
svRec == [assignments |-> assignments, watches |-> watches,
          unassigned |-> unassignedHeap, decisions |-> decisions,
          implications |-> implications, propIndex |-> propIndex,
          clauses |-> clauses, numDecisions |-> numDecisions,
          numImplications |-> numImplications, res |-> "run"]

setSv(s) ==
    /\ assignments' = s.assignments
    /\ watches' = s.watches
    /\ unassignedHeap' = s.unassigned
    /\ decisions' = s.decisions
    /\ implications' = s.implications
    /\ propIndex' = s.propIndex
    /\ clauses' = s.clauses
    /\ numDecisions' = s.numDecisions
    /\ numImplications' = s.numImplications

\* the solver newSolver returned becomes the state of the call
setSolver(sv) ==
    /\ mem' = sv.mem
    /\ simpleSat' = sv.simpleSat
    /\ simplified' = sv.simplified
    /\ sourceVars' = sv.sourceVars
    /\ origVars' = sv.origVars
    /\ clauses' = sv.clauses
    /\ watches' = sv.watches
    /\ assignments' = sv.assignments
    /\ unassignedHeap' = sv.unassigned
    /\ pc' = IF sv.simpleSat # unassigned THEN "simple" ELSE "decide"

\* one step of the loop of solver.solve has ended in s: the solver fields,
\* where the loop goes on (at, after "ok"), the value solve returns on "sat"
\* and "unsat", and the panic any other outcome is
step(s, at) ==
    /\ setSv(s)
    /\ pc' = IF s.res \in {"sat", "unsat"} THEN "return"
             ELSE IF s.res = "ok" THEN at
             ELSE IF s.res = "conflict" THEN "conflict"
             ELSE "panic"
    /\ ok' = IF s.res = "sat" THEN TRUE
             ELSE IF s.res = "unsat" THEN FALSE
             ELSE ok
    /\ panicMsg' = IF s.res \in {"sat", "unsat", "ok", "conflict"} THEN panicMsg
                   ELSE s.res

NoResult == [sat |-> FALSE, assignment |-> <<>>]

\* -------------------------------------------------- the whole call, as a value
\* newSolver(problem), lines 115-167, for a problem without a zero literal:
\* the fields of the solver it returns, r being what simplify returned
newSolverFrom(r) ==
    LET settled == r.simpleSat # unassigned
        ov == IF settled THEN <<>> ELSE makeOrigVars(r.mem, r.simplified)
        cl == IF settled THEN <<>> ELSE makeClauses(r.mem, r.simplified, ov)
        w == IF settled THEN <<>> ELSE makeWatches(cl, Len(ov))
    IN [mem |-> r.mem,
        simpleSat |-> r.simpleSat,
        simplified |-> r.simplified,
        sourceVars |-> IF settled THEN r.sourceVars
                       ELSE linkSourceVars(r.sourceVars, ov),
        origVars |-> ov,
        clauses |-> cl,
        watches |-> w,
        assignments |-> [k \in 1..Len(ov) |-> unassigned],
        unassigned |-> makeHeap(<<>>, w, 0)]

newSolver(p) == newSolverFrom(simplify(p))

\* solver.solve, lines 376-404: the loop from the program point at
RECURSIVE solveLoop(_, _)
solveLoop(s, at) ==
    LET run(x) == [x EXCEPT !.res = "run"] IN
    IF at = "decide"
    THEN LET d == decide(s)
         IN IF d.res = "ok" THEN solveLoop(run(d), "bcp") ELSE d
    ELSE IF at = "bcp"
    THEN LET b == bcp(s)
         IN IF b.res = "ok" THEN solveLoop(run(b), "decide")
            ELSE IF b.res = "conflict" THEN solveLoop(run(b), "conflict")
            ELSE b
    ELSE LET c == resolveConflict(s)
         IN IF c.res = "ok" THEN solveLoop(run(c), "bcp") ELSE c

\* Solve(problem), lines 287-317: how the call ends and what it returns
Solve(p) ==
    IF hasZero(p)
    THEN [pc |-> "panic", panicMsg |-> PanicZero, result |-> NoResult]
    ELSE
      LET sv == newSolver(p)
          s == IF sv.simpleSat # unassigned
               THEN [assignments |-> sv.assignments,
                     res |-> IF sv.simpleSat = assnTrue THEN "sat" ELSE "unsat"]
               ELSE solveLoop(
                      [assignments |-> sv.assignments, watches |-> sv.watches,
                       unassigned |-> sv.unassigned, decisions |-> <<>>,
                       implications |-> <<>>, propIndex |-> 0,
                       clauses |-> sv.clauses, numDecisions |-> 0,
                       numImplications |-> 0, res |-> "run"], "decide")
          soln == makeSoln(sv.sourceVars, s.assignments)
      IN IF s.res = "unsat"
         THEN [pc |-> "done", panicMsg |-> "", result |-> NoResult]
         ELSE IF s.res # "sat"
         THEN [pc |-> "panic", panicMsg |-> s.res, result |-> NoResult]
         ELSE IF \E k \in 1..Len(soln) : soln[k] = 0
         THEN [pc |-> "panic", panicMsg |-> PanicIncomplete,
               result |-> NoResult]
         ELSE [pc |-> "done", panicMsg |-> "",
               result |-> [sat |-> TRUE, assignment |-> soln]]

\* ------------------------------------------------------------------ inputs
litWeight(l) == IF l = 0 THEN 1 ELSE abs(l)

RECURSIVE ClausesOfWeight(_)
ClausesOfWeight(w) ==
    IF w = 0 THEN {<<>>}
    ELSE UNION {{<<l>> \o c : c \in ClausesOfWeight(w - litWeight(l))} :
                    l \in (-w)..w}

RECURSIVE ProblemsOfWeight(_)
ProblemsOfWeight(w) ==
    IF w = 0 THEN {<<>>}
    ELSE UNION {{<<c>> \o p : c \in ClausesOfWeight(k),
                              p \in ProblemsOfWeight(w - 1 - k)} :
                    k \in 0..(w - 1)}

\* every problem of weight at most MaxWeight, zero literals included
SmallProblems == UNION {ProblemsOfWeight(w) : w \in 0..MaxWeight}

\* the example of the README
ReadmeExample == <<<<-1, 2>>, <<-2, 3>>, <<1, -3, 2>>>>

\* larger inputs on which the search propagates, meets conflicts and flips
Scenarios ==
    { ReadmeExample,
      <<<<1, 2>>, <<1, -2>>, <<-1, 2>>, <<-1, -2>>>>,
      <<<<1, 2, 3>>, <<-1, -2, -3>>, <<1, -2>>, <<-1, 2>>, <<2, -3>>>>,
      <<<<1, -1>>, <<2, -1>>, <<1, 2>>>>,
      <<<<-1, 1>>, <<2, 1>>, <<-3>>, <<2, -1>>>>,
      <<<<-1, 2>>, <<3, 1>>, <<-1, 3>>, <<1, 2>>>>,
      <<<<1, -2>>, <<-1, 2, -3>>>>,
      <<<<1, -2, -2>>, <<-1, 2, -3, 2>>>>,
      <<<<-1, 2>>, <<1, -2>>, <<-2, -1>>, <<3, 1>>>>,
      <<<<1, -3>>, <<-1, 2>>, <<3, 1>>, <<-2, -1>>>>,
      <<<<3, 1>>, <<-1, -1, -2>>, <<1, 3>>, <<-1, 2>>>>,
      <<<<2, 3>>, <<-3, -1, -2>>, <<2, -3>>, <<1, -2>>, <<3, -1, -2>>>>,
      <<<<-2, 1, -1>>, <<-1, 2>>, <<-3, 1>>, <<-1, -2>>>>,
      <<<<2, -3>>, <<-2, -1>>, <<2, 1, 3>>, <<-1, -2>>>>,
      <<<<2, -3>>, <<-2, 3, -2>>, <<3, 2, 2>>, <<-1, -3, 2>>, <<-1, 1, -2>>>>,
      <<<<2, 3>>, <<-3, -2, -4>>, <<2, -4>>, <<4, -3, 4>>, <<1, -1>>, <<3, 1>>>>,
      <<<<1>>, <<1, 2>>, <<3, -3>>>>,
      <<<<-3, -2>>, <<-3, 2>>, <<-1, 3>>, <<1, 3, -2>>>>,
      <<<<1, 2>>, <<1, -2, -1>>, <<-1, 3, 3>>, <<-1, -1, -3>>>>,
      <<<<-1>>, <<1, 2, 3>>, <<-2, 3>>>>,
      <<<<-1, 3>>, <<2, -3, 1>>, <<1, -2>>>>,
      <<<<4, 2>>, <<-5, 5>>, <<-4, 2, -2>>, <<5, -5>>, <<-3, -2>>, <<2, -1>>,
        <<-5, -3>>, <<3, -2>>>> }

Problems == SmallProblems \cup Scenarios

InitWith(P) ==
    /\ problem \in P
    /\ pc = "start"
    /\ mem = [a \in 1..Len(problem) |-> problem[a]]
    /\ simpleSat = unassigned
    /\ simplified = <<>>
    /\ sourceVars = <<>>
    /\ origVars = <<>>
    /\ assignments = <<>>
    /\ watches = <<>>
    /\ unassignedHeap = <<>>
    /\ decisions = <<>>
    /\ implications = <<>>
    /\ propIndex = 0
    /\ clauses = <<>>
    /\ numDecisions = 0
    /\ numImplications = 0
    /\ ok = FALSE
    /\ result = NoResult
    /\ panicMsg = ""
    /\ flips = <<>>
    /\ earlier = <<>>

NoParse == [ok |-> FALSE, clauses |-> <<>>, err |-> ""]

\* no DIMACS call is under way
DimacsIdle ==
    /\ dimacsPc = "idle"
    /\ cnf = <<>>
    /\ text = <<>>
    /\ writeErr = ""
    /\ parseResult = NoParse

Init == InitWith(Problems) /\ DimacsIdle

\* ----------------------------------------------------------------- actions
\* Solve line 288: newSolver(problem) with the simplify it calls
NewSolver ==
    /\ pc = "start"
    /\ IF hasZero(problem)
       THEN /\ pc' = "panic"
            /\ panicMsg' = PanicZero
            /\ UNCHANGED <<simplifyVars, assignments, watches, unassignedHeap,
                           clauses>>
       ELSE /\ setSolver(newSolver(problem))
            /\ UNCHANGED panicMsg
    /\ UNCHANGED <<problem, earlier, dimacsVars, decisions, implications, propIndex, numDecisions,
                   numImplications, ok, result, flips>>

\* solver.solve, lines 363-374: the problem was settled by simplify
SolveSimple ==
    /\ pc = "simple"
    /\ ok' = (simpleSat = assnTrue)
    /\ pc' = "return"
    /\ UNCHANGED <<problem, earlier, dimacsVars, simplifyVars, searchVars, result, panicMsg,
                   flips>>

\* solver.solve, lines 380-397: the decision at the top of the loop
Decide ==
    /\ pc = "decide"
    /\ step(decide(svRec), "bcp")
    /\ flips' = IF Len(decisions') > Len(decisions) THEN Append(flips, 0)
                ELSE flips
    /\ UNCHANGED <<problem, earlier, dimacsVars, simplifyVars, result>>

\* solver.bcp, lines 419-506, called at line 399
Bcp ==
    /\ pc = "bcp"
    /\ step(bcp(svRec), "decide")
    /\ UNCHANGED <<problem, earlier, dimacsVars, simplifyVars, result, flips>>

\* solver.resolveConflict, lines 540-574, called at line 400
ResolveConflict ==
    /\ pc = "conflict"
    /\ step(resolveConflict(svRec), "bcp")
    /\ flips' = IF pc' = "bcp"
                THEN [SubSeq(flips, 1, Len(decisions'))
                         EXCEPT ![Len(decisions')] = @ + 1]
                ELSE flips
    /\ UNCHANGED <<problem, earlier, dimacsVars, simplifyVars, result>>

\* Solve, lines 291-317: the result is assembled from sourceVars
Return ==
    /\ pc = "return"
    /\ IF ~ok
       THEN /\ result' = [sat |-> FALSE, assignment |-> <<>>]
            /\ pc' = "done"
            /\ UNCHANGED panicMsg
       ELSE LET soln == makeSoln(sourceVars, assignments)
            IN IF \E k \in 1..Len(soln) : soln[k] = 0
               THEN /\ pc' = "panic"
                    /\ panicMsg' = PanicIncomplete
                    /\ UNCHANGED result
               ELSE /\ result' = [sat |-> TRUE, assignment |-> soln]
                    /\ pc' = "done"
                    /\ UNCHANGED panicMsg
    /\ UNCHANGED <<problem, earlier, dimacsVars, simplifyVars, searchVars, ok, flips>>

Next ==
    \/ NewSolver
    \/ SolveSimple
    \/ Decide
    \/ Bcp
    \/ ResolveConflict
    \/ Return

Spec == Init /\ [][Next]_vars

\* ------------------------------------------------- DIMACS: inputs and steps
\* the problems handed to WriteDIMACS: every problem up to MaxCnfWeight
\* (zero literals and missing variables included) and one with literals of
\* two digits
WideCnf == <<<<1, -2, 3, 4, 5, 6>>, <<>>, <<7, 8, 9, -10, 11, -12>>>>

\* one clause that repeats the literal 1 until its line, " 0" included, is
\* longer than the Scanner takes
LongCnf == <<[i \in 1..(MaxScanTokenSize \div 2) |-> 1]>>

DimacsProblems ==
    UNION {ProblemsOfWeight(w) : w \in 0..MaxCnfWeight}
    \cup {WideCnf, LongCnf}

\* tokens joined by single spaces
RECURSIVE Join(_)
Join(toks) ==
    IF Len(toks) = 0 THEN <<>>
    ELSE IF Len(toks) = 1 THEN toks[1]
    ELSE toks[1] \o <<" ">> \o Join(Tail(toks))

tokP == <<"p">>
tokCnf == <<"c", "n", "f">>

\* the lines the texts handed to ParseDIMACS are made of
DimacsLines ==
    { Join(<<tokP, tokCnf, <<"0">>, <<"0">>>>),
      Join(<<tokP, tokCnf, <<"1">>, <<"1">>>>),
      Join(<<tokP, tokCnf, <<"2">>, <<"2">>>>),
      Join(<<<<"c">>, <<"1">>, <<"0">>>>),
      <<"%">>,
      <<>>,
      Join(<<<<"1">>, <<"0">>>>),
      Join(<<<<"-", "1">>, <<"2">>, <<"0">>>>),
      <<"0">>,
      <<"1">>,
      Join(<<<<"1">>, <<"-", "2">>>>),
      <<"x">>,
      Join(<<<<"1">>, <<"0">>, <<"-", "2">>, <<"0">>>>) }

\* the lines, each ended by "\n"
RECURSIVE Unlines(_)
Unlines(lines) ==
    IF Len(lines) = 0 THEN <<>>
    ELSE lines[1] \o <<"\n">> \o Unlines(Tail(lines))

\* a comment line of n characters
commentLine(n) == [i \in 1..n |-> "c"]

\* texts with a comment line at the limit of the Scanner: one character
\* below it, at it, and at it behind the line "%"
LongTexts ==
    { Unlines(<<Join(<<<<"1">>, <<"0">>>>), commentLine(MaxScanTokenSize - 1)>>),
      Unlines(<<Join(<<<<"1">>, <<"0">>>>), commentLine(MaxScanTokenSize)>>),
      Unlines(<<Join(<<<<"1">>, <<"0">>>>), <<"%">>,
                commentLine(MaxScanTokenSize)>>) }

\* every text of at most MaxLines of these lines, and the long ones
DimacsTexts ==
    {Unlines(ls) : ls \in UNION {[1..n -> DimacsLines] : n \in 0..MaxLines}}
    \cup LongTexts

\* a problem to write and read back, or a text to parse
DimacsInit ==
    /\ InitWith({<<>>})
    /\ \/ /\ dimacsPc = "write"
          /\ cnf \in DimacsProblems
          /\ text = <<>>
       \/ /\ dimacsPc = "parse"
          /\ cnf = <<>>
          /\ text \in DimacsTexts
    /\ writeErr = ""
    /\ parseResult = NoParse

\* WriteDIMACS has returned res
setWritten(res) ==
    /\ writeErr' = res.err
    /\ text' = res.out
    /\ dimacsPc' = IF res.err = "" THEN "written" ELSE "rejected"

\* WriteDIMACS(w, cnf) into the empty buffer text
Write ==
    /\ dimacsPc = "write"
    /\ setWritten(WriteDIMACS(cnf))
    /\ UNCHANGED <<cnf, parseResult, solverVars>>

\* ParseDIMACS(r), r reading text: the text given, or what Write wrote
Parse ==
    /\ dimacsPc \in {"parse", "written"}
    /\ parseResult' = ParseDIMACS(text)
    /\ dimacsPc' = IF dimacsPc = "written" THEN "reread" ELSE "parsed"
    /\ UNCHANGED <<cnf, text, writeErr, solverVars>>

DimacsNext ==
    \/ Write
    \/ Parse

DimacsSpec == DimacsInit /\ [][DimacsNext]_vars

\* ------------------------------------------------------ truth of the input
Finished == pc \in {"done", "panic"}

inputVars(p) ==
    UNION {{abs(p[i][k]) : k \in 1..Len(p[i])} : i \in 1..Len(p)}

\* literal l is true when exactly the variables of T are true
holdsUnder(T, l) == IF l > 0 THEN l \in T ELSE (-l) \notin T

satisfies(T, p) ==
    \A i \in 1..Len(p) : \E k \in 1..Len(p[i]) : holdsUnder(T, p[i][k])

Satisfiable(p) == \E T \in SUBSET inputVars(p) : satisfies(T, p)

\* the clause holds a literal that occurs in the assignment with its sign
clauseTrue(cls, assignment) ==
    \E k \in 1..Len(cls) : cls[k] \in Range(assignment)

\* the caller's problem as the memory holds it
callerProblem == [a \in 1..Len(problem) |-> mem[a]]

\* the clause without the later occurrences of a literal it already holds
removeLaterRepeats(cls) ==
    LET keep == {k \in 1..Len(cls) : \A m \in 1..(k - 1) : cls[m] # cls[k]}
        ks == SortSet(keep)
    IN [i \in 1..Len(ks) |-> cls[ks[i]]]

withoutRepeats(p) == [i \in 1..Len(p) |-> removeLaterRepeats(p[i])]

outcome == [pc |-> pc, panicMsg |-> panicMsg, result |-> result]

\* ------------------------------------------------------------------ claims

\* the problem holds the literal 0 somewhere
zeroLiteral(p) == \E i \in 1..Len(p) : 0 \in Range(p[i])

\* C1: whenever Solve returns sat = true, every input clause holds a literal
\* that occurs in the returned assignment with the same sign.
C1_Soundness ==
    (pc = "done" /\ result.sat) =>
        \A i \in 1..Len(problem) : clauseTrue(problem[i], result.assignment)

\* C1 witness: SAT returned by the search after a decision and a propagation
C1_Witness ==
    /\ pc = "done"
    /\ result.sat
    /\ numDecisions > 0
    /\ numImplications > 0
    /\ \A i \in 1..Len(problem) : clauseTrue(problem[i], result.assignment)

\* C2: whenever Solve returns sat = false, no truth assignment of the input
\* variables satisfies all input clauses.
C2_Completeness ==
    (pc = "done" /\ ~result.sat) => ~Satisfiable(problem)

\* C3: on every satisfiable problem without a zero literal Solve returns
\* sat = true; it neither reports UNSAT nor aborts.
C3_SatisfiableIsSolved ==
    (Finished /\ ~zeroLiteral(problem) /\ Satisfiable(problem)) =>
        (pc = "done" /\ result.sat)

\* C4: on a problem without a zero literal none of the solver's internal
\* assertion failures is reached: the only panic is the zero-literal one.
C4_NoInternalPanic ==
    pc = "panic" => (zeroLiteral(problem) /\ panicMsg = PanicZero)

\* C5: on every problem without a zero literal the decide / propagate /
\* resolve-conflict loop stops with SAT or UNSAT: a finished call whose
\* problem simplification did not settle has left the loop with a verdict
\* (after which only the assembly of the result can still fail).
C5_Termination ==
    (Finished /\ ~zeroLiteral(problem) /\ simpleSat = unassigned) =>
        (pc = "done" \/ panicMsg = PanicIncomplete)

\* C6: whenever Solve returns sat = true, the assignment has exactly one entry
\* per distinct input variable, the entry of variable v is +v or -v, and the
\* entries are in strictly ascending absolute value.
C6_AssignmentTotality ==
    (pc = "done" /\ result.sat) =>
        LET a == result.assignment
            vs == SortSet(inputVars(problem))
        IN /\ Len(a) = Len(vs)
           /\ \A k \in 1..Len(a) : a[k] \in {vs[k], -vs[k]}
           /\ \A k \in 1..(Len(a) - 1) : abs(a[k]) < abs(a[k + 1])

\* C6 witness: SAT returned by the search with a variable fixed by
\* simplification and a variable that occurs in no reduced clause
C6_Witness ==
    /\ pc = "done"
    /\ result.sat
    /\ numDecisions > 0
    /\ \E k \in 1..Len(sourceVars) : sourceVars[k].assn # unassigned
    /\ \E k \in 1..Len(sourceVars) :
            /\ sourceVars[k].assn = unassigned
            /\ sourceVars[k].v \notin Range(origVars)
    /\ Len(result.assignment) = Cardinality(inputVars(problem))

\* C7: if any clause of the input holds the literal 0, Solve aborts with the
\* zero-literal failure and returns neither SAT nor UNSAT.
C7_ZeroLiteralRejected ==
    (zeroLiteral(problem) /\ pc # "start") =>
        (pc = "panic" /\ panicMsg = PanicZero /\ result = NoResult)

\* C7 witness: the abort on a zero literal that follows an empty clause
C7_Witness ==
    /\ pc = "panic"
    /\ panicMsg = PanicZero
    /\ \E i \in 1..Len(problem) :
            /\ \E k \in 1..Len(problem[i]) : problem[i][k] = 0
            /\ \E m \in 1..(i - 1) : problem[m] = <<>>

\* C8: Solve never modifies its argument: in every state every clause of the
\* caller's problem holds the same literals in the same order.
C8_InputStability ==
    callerProblem = problem

\* C8 witness: a finished call in which simplification filtered a clause in
\* place and bcp swapped the literals of a clause, the argument being intact
C8_Witness ==
    /\ pc = "done"
    /\ callerProblem = problem
    /\ \E i \in 1..Len(problem) :
            mem[Len(problem) + i] # dedup(problem[i], 1)
    /\ clauses # makeClauses(mem, simplified, origVars)

\* C9: Solve on a problem and Solve on the problem with the later repeats of
\* a literal deleted from each clause end alike: same verdict, same
\* assignment.
C9_DuplicateTolerance ==
    (Finished /\ withoutRepeats(problem) # problem) =>
        outcome = Solve(withoutRepeats(problem))

\* C9 witness: SAT returned by the search on a problem with a repeated
\* literal in a clause that reaches the search
C9_Witness ==
    /\ pc = "done"
    /\ result.sat
    /\ numDecisions > 0
    /\ \E i \in 1..Len(problem) :
            /\ removeLaterRepeats(problem[i]) # problem[i]
            /\ Len(removeLaterRepeats(problem[i])) >= 2
    /\ outcome = Solve(withoutRepeats(problem))

\* C10: Solve on the example of the README returns sat = true with an
\* assignment over the variables 1, 2, 3 that satisfies the three clauses.
C10_ReadmeExample ==
    (problem = ReadmeExample /\ Finished) =>
        /\ pc = "done"
        /\ result.sat
        /\ {abs(result.assignment[k]) : k \in 1..Len(result.assignment)}
                = {1, 2, 3}
        /\ \A i \in 1..Len(problem) : clauseTrue(problem[i], result.assignment)

\* ----------------------------------------------------------- DIMACS claims

\* no literal is 0 and the variable magnitudes are exactly 1..N
validCnf(p) ==
    /\ \A i \in 1..Len(p) : 0 \notin Range(p[i])
    /\ inputVars(p) = 1..Cardinality(inputVars(p))

\* C11: for every problem without a zero literal whose variable magnitudes
\* are exactly 1..N, WriteDIMACS succeeds, and ParseDIMACS on what it wrote
\* succeeds and yields the same clauses with the same literals in the same
\* order.
C11_RoundTrip ==
    (validCnf(cnf) /\ dimacsPc \in {"written", "rejected", "reread"}) =>
        /\ dimacsPc # "rejected"
        /\ writeErr = ""
        /\ dimacsPc = "reread" =>
                (parseResult.ok /\ parseResult.clauses = cnf)

\* C11 witness: a problem with an empty clause, a negative literal and a
\* literal of two digits read back as it was written
C11_Witness ==
    /\ dimacsPc = "reread"
    /\ parseResult.ok
    /\ parseResult.clauses = cnf
    /\ \E i \in 1..Len(cnf) : cnf[i] = <<>>
    /\ \E i \in 1..Len(cnf) : \E k \in 1..Len(cnf[i]) : cnf[i][k] < -9

\* the round trip of C11 for the problems each clause of which is written
\* on a line the Scanner takes
C11_ShortLinesRoundTrip ==
    (validCnf(cnf) /\ dimacsPc \in {"written", "rejected", "reread"}
     /\ \A i \in 1..Len(cnf) : Len(writeClause(cnf[i])) <= MaxScanTokenSize) =>
        /\ dimacsPc # "rejected"
        /\ writeErr = ""
        /\ dimacsPc = "reread" => (parseResult.ok /\ parseResult.clauses = cnf)

\* the lines ParseDIMACS reads: those before the first line "%"
linesRead(t) ==
    LET ls == ScanLines(t)
        stops == {k \in 1..Len(ls) : ls[k] = <<"%">>}
    IN IF stops = {} THEN ls
       ELSE SubSeq(ls, 1, (CHOOSE k \in stops : \A m \in stops : k <= m) - 1)

isComment(l) == Len(l) = 0 \/ l[1] = "c"

isProblemLine(l) == Len(l) > 0 /\ l[1] = "p"

\* the line holds a clause token
isClauseLine(l) ==
    ~isComment(l) /\ ~isProblemLine(l) /\ Len(Fields(l, 1, <<>>)) > 0

\* the line reads p cnf NVARS NCLAUSES with two integers that are not negative
isHeader(l) ==
    LET f == Fields(l, 1, <<>>)
    IN /\ isProblemLine(l)
       /\ Len(f) = 4
       /\ f[1] = <<"p">>
       /\ f[2] = <<"c", "n", "f">>
       /\ Atoi(f[3]).ok /\ Atoi(f[3]).n >= 0
       /\ Atoi(f[4]).ok /\ Atoi(f[4]).n >= 0

headerVars(l) == Atoi(Fields(l, 1, <<>>)[3]).n

headerClauses(l) == Atoi(Fields(l, 1, <<>>)[4]).n

\* ParseDIMACS has returned on the text
Parsed == dimacsPc \in {"parsed", "reread"}

\* C12: whenever a problem line p cnf NVARS NCLAUSES is present (NVARS = 0
\* included), ParseDIMACS succeeds only if every literal's magnitude lies in
\* 1..NVARS and the number of clauses parsed is NCLAUSES.
C12_HeaderValidated ==
    (Parsed /\ parseResult.ok) =>
        \A k \in 1..Len(linesRead(text)) :
            isHeader(linesRead(text)[k]) =>
                /\ inputVars(parseResult.clauses)
                        \subseteq 1..headerVars(linesRead(text)[k])
                /\ Len(parseResult.clauses) = headerClauses(linesRead(text)[k])

\* C13: ParseDIMACS returns an error whenever a problem line comes after a
\* clause token (a literal of a clause not yet closed included) and whenever
\* there is a second problem line.
C13_HeaderFirstAndOnce ==
    (Parsed /\ parseResult.ok) =>
        \A k \in 1..Len(linesRead(text)) :
            isProblemLine(linesRead(text)[k]) =>
                \A m \in 1..(k - 1) :
                    /\ ~isClauseLine(linesRead(text)[m])
                    /\ ~isProblemLine(linesRead(text)[m])

same(r1, r2) == r1.ok = r2.ok /\ r1.clauses = r2.clauses

\* the text without its lines that begin with 'c'
stripComments(t) ==
    Unlines(SelectSeq(splitLines(t), LAMBDA l : ~(Len(l) > 0 /\ l[1] = "c")))

\* the text up to its first line "%", that line included
dropTrailer(t) ==
    IF Len(linesRead(t)) = Len(ScanLines(t)) THEN t
    ELSE Unlines(SubSeq(splitLines(t), 1, Len(linesRead(t)) + 1))

\* C14: lines beginning with 'c', wherever they stand, and whatever follows
\* a line "%" change neither the clauses ParseDIMACS returns nor whether it
\* succeeds: the result is that of the text without its comment lines, and
\* that of the text cut after its first line "%".
C14_CommentsAndTrailerIgnored ==
    Parsed =>
        /\ same(parseResult, ParseDIMACS(stripComments(text)))
        /\ same(parseResult, ParseDIMACS(dropTrailer(text)))

\* the part of C14 about the trailer alone
C14_TrailerIgnored ==
    Parsed => same(parseResult, ParseDIMACS(dropTrailer(text)))

\* the part of C14 about comments, for lines the Scanner takes
C14_ShortCommentsIgnored ==
    (Parsed /\ \A k \in 1..Len(splitLines(text)) :
                    Len(splitLines(text)[k]) < MaxScanTokenSize) =>
        same(parseResult, ParseDIMACS(stripComments(text)))

\* the integers of the tokens of a line
tokenInts(l) ==
    [k \in 1..Len(Fields(l, 1, <<>>)) |-> Atoi(Fields(l, 1, <<>>)[k]).n]

\* the integers of the clause lines read, one after the other with the line
\* breaks forgotten
RECURSIVE tokenStream(_, _)
tokenStream(ls, k) ==
    IF k > Len(ls) THEN <<>>
    ELSE (IF isClauseLine(ls[k]) THEN tokenInts(ls[k]) ELSE <<>>)
         \o tokenStream(ls, k + 1)

\* the stream cut at every 0, cur being the literals pending
RECURSIVE splitAtZeros(_, _)
splitAtZeros(toks, cur) ==
    IF Len(toks) = 0 THEN (IF Len(cur) = 0 THEN <<>> ELSE <<cur>>)
    ELSE IF Head(toks) = 0 THEN <<cur>> \o splitAtZeros(Tail(toks), <<>>)
    ELSE splitAtZeros(Tail(toks), Append(cur, Head(toks)))

\* C15: the clauses ParseDIMACS returns are the token stream of the lines
\* read, cut at every 0 whatever the line breaks: a 0 with no literal pending
\* gives an empty clause, and the literals pending at the end of the input or
\* at the line "%" are a last clause.
C15_ClausesFromTokenStream ==
    (Parsed /\ parseResult.ok) =>
        parseResult.clauses = splitAtZeros(tokenStream(linesRead(text), 1), <<>>)

\* a clause goes on over a line break, two clauses share a line, and the
\* literal pending at the end is a clause
C15_Witness ==
    /\ dimacsPc = "parsed"
    /\ Len(ScanLines(text)) = 3
    /\ parseResult.ok
    /\ parseResult.clauses = <<<<1, -2, 1>>, <<-2>>, <<1>>>>

\* an empty clause, and literals pending at the line "%"
C15_WitnessEmptyAndTrailer ==
    /\ dimacsPc = "parsed"
    /\ Len(linesRead(text)) = 2
    /\ Len(ScanLines(text)) = 3
    /\ parseResult.ok
    /\ parseResult.clauses = <<<<>>, <<1>>>>

\* WriteDIMACS has returned on cnf
Written == dimacsPc \in {"written", "rejected", "reread"}

\* the line is "0" or ends in " 0"
endsInZero(l) ==
    /\ Len(l) > 0
    /\ l[Len(l)] = "0"
    /\ Len(l) > 1 => l[Len(l) - 1] = " "

C16_WitnessZero ==
    dimacsPc = "rejected" /\ zeroLiteral(cnf) /\ writeErr # ""

\* a problem without zero that leaves out a variable has been refused
C16_WitnessGap ==
    dimacsPc = "rejected" /\ ~zeroLiteral(cnf) /\ 1 \notin inputVars(cnf)
    /\ writeErr # ""

\* ------------------------------------------------------------ search claims
\* bcp has just returned true: the loop of solve is back at its decision
BcpReturnedOK == pc = "decide" /\ numDecisions > 0

\* bcp has just returned false
BcpReturnedConflict == pc = "conflict"

\* the value of literal l under the current assignment, which is the trail:
\* the decisions as they now stand, flipped or not, and what was implied
value(l) ==
    IF \E k \in 1..Len(implications) : implications[k] = l THEN assnTrue
    ELSE IF \E k \in 1..Len(implications) : implications[k] = neg1(l)
    THEN assnFalse
    ELSE unassigned

\* C17: whenever bcp returns OK, every clause with a FALSE literal at
\* position 0 or 1 has a TRUE literal at the other of the two positions.
C17_WatchedLiteralProperty ==
    BcpReturnedOK =>
        \A c \in 1..Len(clauses) :
            /\ value(clauses[c][1]) = assnFalse => value(clauses[c][2]) = assnTrue
            /\ value(clauses[c][2]) = assnFalse => value(clauses[c][1]) = assnTrue

\* C19: whenever bcp returns OK, no clause has all its literals FALSE and no
\* clause has all its literals FALSE but one that is UNASSIGNED.
C19_PropagationComplete ==
    BcpReturnedOK =>
        \A c \in 1..Len(clauses) :
            LET notFalse == {k \in 1..Len(clauses[c]) :
                                value(clauses[c][k]) # assnFalse}
            IN /\ notFalse # {}
               /\ Cardinality(notFalse) = 1 =>
                     \A k \in notFalse : value(clauses[c][k]) = assnTrue

\* C20: whenever bcp returns CONFLICT, some clause has all its literals
\* FALSE under the current assignment, the decisions taken with the values
\* they now have.
C20_ConflictIsReal ==
    BcpReturnedConflict =>
        \E c \in 1..Len(clauses) :
            \A k \in 1..Len(clauses[c]) : value(clauses[c][k]) = assnFalse

\* a decision of the stack has been flipped by resolveConflict
SomeFlip ==
    \E i \in 1..Len(decisions) :
        And4(assignments[varOf(decisions[i].lit) + 1]) # 0

\* C18: in every state of the search clause c is in the watch list of
\* literal l exactly when l is at position 0 or 1 of c, the literals at
\* these two positions differ, no clause is twice in a watch list, and bcp
\* never panics with "bad watch var state".
C18_WatchListsConsistent ==
    /\ panicMsg # PanicBadWatch
    /\ \A c \in 1..Len(clauses) :
          Len(clauses[c]) >= 2 /\ clauses[c][1] # clauses[c][2]
    /\ \A l \in 1..Len(watches) :
          /\ \A c \in 1..Len(clauses) :
                (\E k \in 1..Len(watches[l]) : watches[l][k] = c - 1)
                    <=> (clauses[c][1] = l - 1 \/ clauses[c][2] = l - 1)
          /\ \A k, m \in 1..Len(watches[l]) :
                watches[l][k] = watches[l][m] => k = m

\* after a flip bcp has returned OK, and a clause watches a literal that
\* newSolver had not put at position 0 or 1
C18_Witness ==
    /\ BcpReturnedOK
    /\ SomeFlip
    /\ \E c \in 1..Len(clauses) :
          clauses[c][2] \notin
              {makeClauses(mem, simplified, origVars)[c][1],
               makeClauses(mem, simplified, origVars)[c][2]}

\* literal l occurs in the sequence
onTrail(tr, l) == \E k \in 1..Len(tr) : tr[k] = l

\* the k-th entry of the trail tr is an implication some clause justifies:
\* its variable is on no earlier entry, and a clause holds the literal with
\* the negation of each of its other literals on an earlier entry
justified(tr, k) ==
    /\ ~onTrail(SubSeq(tr, 1, k - 1), tr[k])
    /\ ~onTrail(SubSeq(tr, 1, k - 1), neg1(tr[k]))
    /\ \E c \in 1..Len(clauses) :
          /\ \E j \in 1..Len(clauses[c]) : clauses[c][j] = tr[k]
          /\ \A j \in 1..Len(clauses[c]) :
                clauses[c][j] # tr[k] =>
                    onTrail(SubSeq(tr, 1, k - 1), neg1(clauses[c][j]))

\* what one call of bcp has done, the state before unprimed and the state
\* it left primed
BcpImplicationsJustified ==
    /\ Len(implications') >= Len(implications)
    /\ SubSeq(implications', 1, Len(implications)) = implications
    /\ numImplications' = numImplications + Len(implications') - Len(implications)
    /\ \A k \in (Len(implications) + 1)..Len(implications') :
          /\ assignments[varOf(implications'[k]) + 1] = unassigned
          /\ justified(implications', k)
          /\ assignments'[varOf(implications'[k]) + 1] = litAssn(implications'[k])
          /\ \A m \in 1..Len(implications') :
                implications'[m] = implications'[k] => m = k
          /\ ~inHeap(unassignedHeap', implications'[k])
    /\ \A v \in 1..Len(assignments) :
          assignments'[v] # assignments[v] =>
              \E k \in (Len(implications) + 1)..Len(implications') :
                  varOf(implications'[k]) + 1 = v

\* C21: whenever bcp assigns a variable from a clause, the variable was
\* UNASSIGNED and every other literal of the clause was FALSE at that moment;
\* afterwards the implied literal is TRUE, stands once on the trail, is out
\* of the unassigned set, and numImplications has grown by one for it.
C21_ImplicationsJustified == [][pc = "bcp" => BcpImplicationsJustified]_vars

\* C21 for the calls of bcp that do not end in a panic
C21_JustifiedUnlessPanic ==
    [][(pc = "bcp" /\ pc' # "panic") => BcpImplicationsJustified]_vars

\* the loop of solve is at a decision, or bcp or resolveConflict has just
\* returned or is about to be called
InSearch == pc \in {"decide", "bcp", "conflict"}

\* C22: at every decision point and after every step of bcp and
\* resolveConflict a variable is UNASSIGNED exactly when it is in the
\* unassigned set: both literals of an unassigned variable are in the heap
\* and no literal of an assigned variable is.
C22_UnassignedSet ==
    InSearch =>
        \A v \in 1..Len(assignments) :
            IF assignments[v] = unassigned
            THEN /\ inHeap(unassignedHeap, 2 * (v - 1))
                 /\ inHeap(unassignedHeap, 2 * (v - 1) + 1)
            ELSE /\ ~inHeap(unassignedHeap, 2 * (v - 1))
                 /\ ~inHeap(unassignedHeap, 2 * (v - 1) + 1)

\* the half of C22 about assigned variables
C22_NoAssignedInHeap ==
    InSearch =>
        \A v \in 1..Len(assignments) :
            assignments[v] # unassigned =>
                /\ ~inHeap(unassignedHeap, 2 * (v - 1))
                /\ ~inHeap(unassignedHeap, 2 * (v - 1) + 1)

\* the weakest reading of C22: an unassigned variable has a literal in the
\* heap
C22_UnassignedInHeap ==
    InSearch =>
        \A v \in 1..Len(assignments) :
            assignments[v] = unassigned =>
                \/ inHeap(unassignedHeap, 2 * (v - 1))
                \/ inHeap(unassignedHeap, 2 * (v - 1) + 1)

\* resolveConflict has flipped a decision: the step from the conflict back
\* to bcp
Flipped == pc = "conflict" /\ pc' = "bcp"

\* the variable (1-based) of the decision resolveConflict left on top
flippedVar == varOf(decisions'[Len(decisions')].lit) + 1

\* C23: after resolveConflict flips a decision the variable's stored value
\* is assnTrueSecond or assnFalseSecond, its truth value (& 3) is the
\* opposite of the one before and is the polarity of the flipped trail
\* literal and of the literal of the decision record.
C23_PolarityFlip ==
    [][Flipped =>
        /\ assignments'[flippedVar] \in {assnTrueSecond, assnFalseSecond}
        /\ And3(assignments'[flippedVar]) = inv(And3(assignments[flippedVar]))
        /\ And3(assignments'[flippedVar])
              = litAssn(decisions'[Len(decisions')].lit)
        /\ implications'[Len(implications')] = decisions'[Len(decisions')].lit
      ]_vars

\* what the flip does keep: the trail literal and the literal of the decision
\* record are the same flipped literal, and the mark is set
C23_TrailAndRecordFlipped ==
    [][Flipped =>
        /\ And4(assignments'[flippedVar]) # 0
        /\ implications'[Len(implications')] = decisions'[Len(decisions')].lit
        /\ decisions'[Len(decisions')].lit
              = neg1(decisions[Len(decisions')].lit)
      ]_vars

\* the decision at position i (1-based) of the stack carries the mark of
\* line 547: the value of its variable has bit 2 set
triedBothWays(i) == And4(assignments[varOf(decisions[i].lit) + 1]) # 0

\* the decision at position i (1-based) of the stack has been flipped
flipped(i) == flips[i] > 0

\* C24: resolveConflict reports UNSAT exactly when every decision of the
\* stack has been flipped; otherwise it flips the topmost decision that has
\* not been flipped and drops the ones above it; no decision is flipped a
\* second time while it is on the stack.
C24_TopmostUnflipped ==
    [][/\ pc = "conflict" =>
             /\ (pc' = "return") <=> (\A i \in 1..Len(decisions) : flipped(i))
             /\ pc' = "return" => ~ok'
             /\ pc' = "bcp" =>
                   /\ Len(decisions') <= Len(decisions)
                   /\ ~flipped(Len(decisions'))
                   /\ \A i \in (Len(decisions') + 1)..Len(decisions) :
                         flipped(i)
                   /\ \A i \in 1..(Len(decisions') - 1) :
                         decisions'[i] = decisions[i]
       /\ \A i \in 1..Len(flips') : flips'[i] <= 1
      ]_vars

\* what the scan does do: it goes by the mark of the variable, reports UNSAT
\* exactly when the variable of every decision carries it, and otherwise
\* flips the topmost decision whose variable does not; the mark belongs to
\* the variable, and a later decision on the same variable or a rollback
\* over a trail entry of it takes it from a decision that was flipped
C24_ScanFollowsMarks ==
    [][pc = "conflict" =>
        /\ (pc' = "return") <=> (\A i \in 1..Len(decisions) : triedBothWays(i))
        /\ pc' = "return" => ~ok'
        /\ pc' = "bcp" =>
              /\ Len(decisions') <= Len(decisions)
              /\ ~triedBothWays(Len(decisions'))
              /\ \A i \in (Len(decisions') + 1)..Len(decisions) :
                    triedBothWays(i)
              /\ And4(assignments'[flippedVar]) # 0
              /\ \A i \in 1..(Len(decisions') - 1) :
                    decisions'[i] = decisions[i]
      ]_vars

\* a flipped decision whose variable has lost the mark is on the stack when
\* bcp meets a conflict
C24_FlippedWithoutMark ==
    /\ pc = "conflict"
    /\ \E i \in 1..Len(decisions) : flipped(i) /\ ~triedBothWays(i)

\* the trail index (0-based) of the decision resolveConflict left on top
flippedIdx == decisions'[Len(decisions')].implicationIdx

\* what the rollback does whatever the set holds: the trail ends at the
\* entry of the decision selected, the stack ends at that decision, the
\* variables above are UNASSIGNED without mark and their trail literals are
\* in the heap, the other variables but the flipped one keep their values
RolledBack ==
    /\ Len(implications') = flippedIdx + 1
    /\ SubSeq(implications', 1, flippedIdx) = SubSeq(implications, 1, flippedIdx)
    /\ decisions[Len(decisions')].implicationIdx = flippedIdx
    /\ \A k \in (flippedIdx + 2)..Len(implications) :
          /\ assignments'[varOf(implications[k]) + 1] = unassigned
          /\ inHeap(unassignedHeap', implications[k])
    /\ \A v \in 1..Len(assignments) :
          (/\ v # flippedVar
           /\ \A k \in (flippedIdx + 2)..Len(implications) :
                 varOf(implications[k]) + 1 # v)
              => assignments'[v] = assignments[v]

\* C25: after resolveConflict has selected a decision, every variable whose
\* trail entry lay above the decision's is UNASSIGNED without mark and back
\* in the unassigned set, both its literals in the heap, so that it can be
\* decided or implied again; the trail ends at the decision's entry, the
\* stack at the decision, and the other variables keep their values.
C25_Rollback ==
    [][Flipped =>
        /\ RolledBack
        /\ \A k \in (flippedIdx + 2)..Len(implications) :
              inHeap(unassignedHeap', neg1(implications[k]))
      ]_vars

\* C25 without the negations of the literals rolled back
C25_RollbackOfTrailLiterals == [][Flipped => RolledBack]_vars

\* C26: the cursor lies within the trail in every state and is at its end
\* whenever bcp returns OK; a decision and a flip leave it on the literal
\* they put on the trail, the last one; and a call of bcp that returns OK
\* has examined every trail literal from the cursor on, the implied ones
\* included, each once and in trail order.
C26_PropagationOrder ==
    [][/\ 0 <= propIndex' /\ propIndex' <= Len(implications')
       /\ (pc = "decide" /\ pc' = "bcp") =>
             /\ propIndex = Len(implications)
             /\ propIndex' = Len(implications)
             /\ Len(implications') = Len(implications) + 1
       /\ Flipped =>
             /\ propIndex' = flippedIdx
             /\ Len(implications') = propIndex' + 1
             /\ implications'[propIndex' + 1] = neg1(implications[propIndex' + 1])
       /\ (pc = "bcp" /\ pc' = "decide") =>
             /\ propIndex' = Len(implications')
             /\ examined(svRec)
                   = SubSeq(implications', propIndex + 1, Len(implications'))
      ]_vars

\* bcp has returned OK after a flip and has examined implied literals
C26_Witness ==
    /\ BcpReturnedOK
    /\ SomeFlip
    /\ propIndex = Len(implications)
    /\ Len(implications) > Len(decisions)

\* solve has taken a fresh decision: the step from the decision point to bcp
Decided == pc = "decide" /\ pc' = "bcp"

\* the record of the decision just taken
newDecision == decisions'[Len(decisions')]

\* C27: every fresh decision assigns the chosen variable TRUE, pushes a
\* record that carries no mark and holds the trail length before the
\* decision, and appends the variable's positive literal to the trail; a
\* variable decided on the stack becomes FALSE only through a flip.
C27_DecisionsAssignTrue ==
    [][/\ Decided =>
             /\ newDecision.lit % 2 = 0
             /\ assignments'[varOf(newDecision.lit) + 1] = assnTrue
             /\ newDecision.implicationIdx = Len(implications)
             /\ decisions' = Append(decisions, newDecision)
             /\ implications' = Append(implications, newDecision.lit)
       /\ \A i \in 1..Len(decisions) :
             (/\ i <= Len(decisions')
              /\ decisions'[i] = decisions[i]
              /\ pc' # "panic"
              /\ And3(assignments[varOf(decisions[i].lit) + 1]) # assnFalse)
                 => And3(assignments'[varOf(decisions[i].lit) + 1]) # assnFalse
      ]_vars

\* what a fresh decision does do: it takes the literal at the top of the
\* heap and assigns its variable the polarity of that literal, TRUE for a
\* positive and FALSE for a negative one, whatever value the variable had;
\* it pushes a record without mark that holds the literal and the trail
\* length before the decision, and appends the literal to the trail
C27_DecisionsAssignLiteral ==
    [][Decided =>
        /\ newDecision.lit = unassignedHeap[1]
        /\ assignments'[varOf(newDecision.lit) + 1] = litAssn(newDecision.lit)
        /\ newDecision.implicationIdx = Len(implications)
        /\ decisions' = Append(decisions, newDecision)
        /\ implications' = Append(implications, newDecision.lit)
      ]_vars

\* a fresh decision on a variable that a decision of the stack had decided
C27_DecidedAgain ==
    /\ pc = "bcp"
    /\ \E i \in 1..(Len(decisions) - 1) :
          varOf(decisions[i].lit) = varOf(decisions[Len(decisions)].lit)

\* solve has returned true from the decision point: the heap was empty
SatExit == pc = "return" /\ ok /\ simpleSat = unassigned

\* C28: when the search declares SAT at a decision point with the heap
\* empty, every internal variable has the truth value TRUE or FALSE, and
\* Solve never meets an incomplete solution.
C28_SatIsComplete ==
    /\ SatExit =>
          \A v \in 1..Len(assignments) :
              And3(assignments[v]) \in {assnTrue, assnFalse}
    /\ panicMsg # PanicIncomplete

\* the SAT exit itself is taken with the heap empty
C28_SatExitHeapEmpty == SatExit => Len(unassignedHeap) = 0

\* newSolver has returned and simplify has not settled the problem
Reduced == pc # "start" /\ panicMsg # PanicZero /\ simpleSat = unassigned

\* the literals of the k-th clause simplify left
reduced(k) == sliceLits(mem, simplified[k])

\* the value simplify gave to the variable v of the input
simplifyAssn(v) ==
    LET k == CHOOSE k \in 1..Len(sourceVars) : sourceVars[k].v = v
    IN sourceVars[k].assn

\* C29: when simplify ends without settling the problem, every remaining
\* clause has at least two literals, no repeated literal, and only literals
\* of variables simplify left unassigned: no satisfied clause and no literal
\* of an assigned variable survives.
C29_ReducedProblem ==
    Reduced =>
        /\ Len(simplified) > 0
        /\ \A k \in 1..Len(simplified) :
              /\ Len(reduced(k)) >= 2
              /\ \A a, b \in 1..Len(reduced(k)) :
                    reduced(k)[a] = reduced(k)[b] => a = b
              /\ \A a \in 1..Len(reduced(k)) :
                    /\ \E m \in 1..Len(sourceVars) :
                          sourceVars[m].v = abs(reduced(k)[a])
                    /\ simplifyAssn(abs(reduced(k)[a])) = unassigned

\* simplify has forced a variable, has dropped a literal of it from a clause
\* it kept and has removed a clause
C29_Witness ==
    /\ Reduced
    /\ pc = "decide"
    /\ numDecisions = 0
    /\ \E m \in 1..Len(sourceVars) : sourceVars[m].assn # unassigned
    /\ Len(simplified) < Len(problem)
    /\ \E k \in 1..Len(simplified) :
          Len(reduced(k)) < Len(dedup(problem[simplified[k].a - Len(problem)], 1))

\* simplify has returned (the input had no zero literal)
Simplified == pc # "start" /\ panicMsg # PanicZero

\* the clauses simplify left, as a problem
reducedProblem == [k \in 1..Len(simplified) |-> reduced(k)]

\* the assignment T agrees with every value in sourceVars
agrees(T) ==
    \A m \in 1..Len(sourceVars) :
        /\ sourceVars[m].assn = assnTrue => sourceVars[m].v \in T
        /\ sourceVars[m].assn = assnFalse => sourceVars[m].v \notin T

\* the assignment sourceVars holds when simplify reports SAT
simpleAssignment ==
    {sourceVars[m].v : m \in {k \in 1..Len(sourceVars) :
                                  sourceVars[k].assn = assnTrue}}

\* C30: simplification preserves the solution set.  When simplify has not
\* settled the problem, an assignment satisfies the input exactly if it
\* agrees with the values simplify forced and satisfies every clause
\* simplify left, so that every forced value holds in every satisfying
\* assignment; simplify reports UNSAT only for an unsatisfiable input; and
\* when it reports SAT, the assignment it leaves in sourceVars gives every
\* variable of the input a value and satisfies the input.
C30_SolutionSetPreserved ==
    Simplified =>
        /\ simpleSat = unassigned =>
              /\ {sourceVars[m].v : m \in 1..Len(sourceVars)} = inputVars(problem)
              /\ \A T \in SUBSET inputVars(problem) :
                    /\ satisfies(T, problem)
                          <=> (agrees(T) /\ satisfies(T, reducedProblem))
                    /\ satisfies(T, problem) => agrees(T)
        /\ simpleSat = assnFalse => ~Satisfiable(problem)
        /\ simpleSat = assnTrue =>
              /\ {sourceVars[m].v : m \in 1..Len(sourceVars)} = inputVars(problem)
              /\ \A m \in 1..Len(sourceVars) :
                    sourceVars[m].assn \in {assnTrue, assnFalse}
              /\ satisfies(simpleAssignment, problem)

\* simplify has forced a variable and left clauses that could be satisfied
\* against the forced value, and the input has a satisfying assignment
C30_Witness ==
    /\ Simplified
    /\ simpleSat = unassigned
    /\ pc = "decide"
    /\ numDecisions = 0
    /\ Satisfiable(problem)
    /\ \E T \in SUBSET inputVars(problem) :
          satisfies(T, reducedProblem) /\ ~agrees(T)

\* simplify has reported UNSAT for an input that has no empty clause and has
\* a clause of several literals
C30_WitnessUnsat ==
    /\ Simplified
    /\ simpleSat = assnFalse
    /\ \A i \in 1..Len(problem) : Len(problem[i]) > 0
    /\ \E i \in 1..Len(problem) : Len(problem[i]) > 1

\* simplify has reported SAT with a variable forced FALSE
C30_WitnessSat ==
    /\ Simplified
    /\ simpleSat = assnTrue
    /\ \E m \in 1..Len(sourceVars) : sourceVars[m].assn = assnFalse

\* the source variables simplify left unassigned, as positions of sourceVars
linked == {m \in 1..Len(sourceVars) : sourceVars[m].assn = unassigned}

\* C31: for every source variable simplify left UNASSIGNED the solver index
\* i designates that same variable, origVars[i] is the source variable, also
\* when the variable occurs in no remaining clause; the value Solve reports
\* for it is the value the search gave to that variable.
C31_VariableLinkage ==
    /\ Reduced =>
          \A m \in linked :
              /\ sourceVars[m].i < Len(origVars)
              /\ origVars[sourceVars[m].i + 1] = sourceVars[m].v
    /\ (Reduced /\ pc = "done" /\ result.sat) =>
          \A m \in linked :
              \E k \in 1..Len(origVars) :
                  /\ origVars[k] = sourceVars[m].v
                  /\ result.assignment[m]
                        = IF And3(assignments[k]) = assnTrue
                          THEN sourceVars[m].v ELSE -sourceVars[m].v

\* the linkage of the variables that do occur in a remaining clause
C31_LinkageOfReducedVars ==
    Reduced =>
        \A m \in linked :
            (\E k \in 1..Len(origVars) : origVars[k] = sourceVars[m].v)
                => origVars[sourceVars[m].i + 1] = sourceVars[m].v

\* Solve has reported a value for a variable that simplify left unassigned
\* and that occurs in no remaining clause
C31_UnlinkedReported ==
    /\ Reduced
    /\ pc = "done"
    /\ result.sat
    /\ \E m \in linked : \A k \in 1..Len(origVars) : origVars[k] # sourceVars[m].v

\* the internal variable (1-based) of the k-th trail entry
trailVar(k) == varOf(implications[k]) + 1

\* C32: in every state of the search the trail lists each assigned internal
\* variable exactly once (no variable twice, no unassigned variable, no
\* assigned variable missing), every trail literal is TRUE under the current
\* assignment, and the trail index of each decision record points at an
\* entry that holds the decision's own literal, the indices strictly
\* increasing up the stack.
C32_TrailInvariant ==
    InSearch =>
        /\ \A a, b \in 1..Len(implications) : trailVar(a) = trailVar(b) => a = b
        /\ \A v \in 1..Len(assignments) :
              (And3(assignments[v]) # unassigned)
                  <=> (\E k \in 1..Len(implications) : trailVar(k) = v)
        /\ \A k \in 1..Len(implications) :
              And3(assignments[trailVar(k)]) = litAssn(implications[k])
        /\ \A i \in 1..Len(decisions) :
              /\ decisions[i].implicationIdx < Len(implications)
              /\ implications[decisions[i].implicationIdx + 1] = decisions[i].lit
        /\ \A i \in 1..(Len(decisions) - 1) :
              decisions[i].implicationIdx < decisions[i + 1].implicationIdx

\* what does hold of the decision records: each points at the trail entry
\* of its own literal, the indices strictly increasing up the stack
C32_DecisionIndices ==
    InSearch =>
        /\ \A i \in 1..Len(decisions) :
              /\ decisions[i].implicationIdx < Len(implications)
              /\ implications[decisions[i].implicationIdx + 1] = decisions[i].lit
        /\ \A i \in 1..(Len(decisions) - 1) :
              decisions[i].implicationIdx < decisions[i + 1].implicationIdx

\* the trail holds a literal that is not TRUE under the current assignment
C32_TrailLiteralNotTrue ==
    /\ InSearch
    /\ \E k \in 1..Len(implications) :
          And3(assignments[trailVar(k)]) # litAssn(implications[k])

\* the trail holds two entries of one variable
C32_VariableTwice ==
    /\ InSearch
    /\ \E a, b \in 1..Len(implications) : a # b /\ trailVar(a) = trailVar(b)

\* how often x occurs in the sequence q
count(q, x) == Cardinality({k \in 1..Len(q) : q[k] = x})

\* the sequence q holds the elements of r, each as often, in some order
permutationOf(q, r) ==
    /\ Len(q) = Len(r)
    /\ \A k \in 1..Len(r) : count(q, r[k]) = count(r, r[k])

\* C33: resolveConflict changes neither the watch lists nor the literals or
\* the literal order of any clause; after newSolver has built them the watch
\* lists are changed by bcp only, and bcp only permutes the literals of a
\* clause, adding none and removing none.
C33_BacktrackingFrame ==
    [][/\ pc = "conflict" => (watches' = watches /\ clauses' = clauses)
       /\ pc \notin {"start", "bcp"} => (watches' = watches /\ clauses' = clauses)
       /\ pc = "bcp" =>
             /\ Len(clauses') = Len(clauses)
             /\ \A c \in 1..Len(clauses) : permutationOf(clauses'[c], clauses[c])
      ]_vars

\* resolveConflict has just flipped a decision, and the watch lists are not
\* the ones newSolver built: what bcp moved before the conflict stays moved
C33_Witness ==
    /\ pc = "bcp"
    /\ Len(decisions) > 0
    /\ flips[Len(decisions)] > 0
    /\ propIndex = decisions[Len(decisions)].implicationIdx
    /\ propIndex = Len(implications) - 1
    /\ watches # makeWatches(makeClauses(mem, simplified, origVars), Len(origVars))
    /\ \E c \in 1..Len(clauses) :
          clauses[c] # makeClauses(mem, simplified, origVars)[c]

\* the decisions of the stack decide variables that differ from each other
distinctDecisions(ds) ==
    \A i, j \in 1..Len(ds) : varOf(ds[i].lit) = varOf(ds[j].lit) => i = j

\* the counters start at 0 and no step lowers them; a flip raises neither
countersMonotone ==
    /\ numDecisions' >= numDecisions
    /\ numImplications' >= numImplications
    /\ Flipped => (numDecisions' = numDecisions /\ numImplications' = numImplications)

\* C34: numDecisions and numImplications start at 0 and never decrease
\* during a solve, a flip counting as neither; and at every moment the
\* decision stack holds at most N records, N the number of internal
\* variables, each on a variable of its own.
C34_CounterMonotonicity ==
    /\ numDecisions = 0
    /\ numImplications = 0
    /\ [][/\ countersMonotone
          /\ Len(decisions') <= Len(assignments')
          /\ distinctDecisions(decisions')
         ]_vars

\* the part about the counters alone
C34_CountersNeverDecrease ==
    /\ numDecisions = 0
    /\ numImplications = 0
    /\ [][countersMonotone]_vars

\* the stack holds two decisions on one variable
C34_TwoDecisionsOnOneVariable ==
    /\ InSearch
    /\ ~distinctDecisions(decisions)

\* the length of the watch list of the literal at position i of the heap
heapKey(h, w, i) == Len(w[h[i] + 1])

\* h is a max-heap on the length of the watch lists w (litHeap.Less), and
\* no literal is in it twice, so that the index m has one position for each
validHeap(h, w) ==
    /\ \A i \in 2..Len(h) : heapKey(h, w, i \div 2) >= heapKey(h, w, i)
    /\ \A i, j \in 1..Len(h) : h[i] = h[j] => i = j

\* C35: every change bcp makes to a watch list leaves the unassigned heap a
\* max-heap on the current length of the watch lists, with one position for
\* each literal, so that every decision pops a literal whose watch list is
\* at least as long as that of every other literal in the heap.
C35_HeapFollowsWatches ==
    [][/\ pc = "bcp" => validHeap(unassignedHeap', watches')
       /\ Decided =>
             \A i \in 1..Len(unassignedHeap) :
                 Len(watches[newDecision.lit + 1]) >= heapKey(unassignedHeap, watches, i)
      ]_vars

\* what does hold: no literal is in the heap twice
C35_NoLiteralTwice ==
    \A i, j \in 1..Len(unassignedHeap) :
        unassignedHeap[i] = unassignedHeap[j] => i = j

\* the heap newSolver builds is a max-heap on the watch lists it built
C35_HeapValidAtFirst ==
    (pc = "decide" /\ numDecisions = 0)
        => validHeap(unassignedHeap, watches)

\* a decision has popped a literal although a literal with a longer watch
\* list was in the heap: the heap at a decision point is not a max-heap
C35_HeapOutOfOrder ==
    /\ pc = "decide"
    /\ Len(unassignedHeap) > 0
    /\ \E i \in 2..Len(unassignedHeap) :
          heapKey(unassignedHeap, watches, i) > heapKey(unassignedHeap, watches, 1)

\* ------------------------------------------------- one call after another
\* the number of calls of Solve a run makes
MaxCalls == 2

\* the inputs of the calls: settled by simplify as SAT and as UNSAT, solved
\* by the search with and without flips, and ending in each panic
CallProblems ==
    { <<>>,
      <<<<>>>>,
      <<<<0>>>>,
      <<<<1>>, <<-1>>>>,
      <<<<1>>, <<1, 2>>>>,
      <<<<1, 2>>>>,
      <<<<1, -1>>>>,
      <<<<1, -1, 2>>>>,
      <<<<1, -1>>, <<2, -1>>, <<1, 2>>>>,
      <<<<1, 2>>, <<1, -2>>, <<-1, 2>>, <<-1, -2>>>>,
      <<<<1>>, <<1, 2>>, <<3, -3>>>>,
      <<<<4, 2>>, <<-5, 5>>, <<-4, 2, -2>>, <<5, -5>>, <<-3, -2>>, <<2, -1>>,
        <<-5, -3>>, <<3, -2>>>>,
      ReadmeExample }

\* what the caller gets from the call that has ended: how it ended, the
\* panic, the verdict and the assignment, and the counters of the stats
callOutcome ==
    [pc |-> pc, panicMsg |-> panicMsg, result |-> result,
     numDecisions |-> numDecisions, numImplications |-> numImplications]

\* a variant of freshSolver that keeps the counters of the solver before
freshSolverKeepsCounters ==
    /\ simpleSat' = unassigned
    /\ simplified' = <<>>
    /\ sourceVars' = <<>>
    /\ origVars' = <<>>
    /\ assignments' = <<>>
    /\ watches' = <<>>
    /\ unassignedHeap' = <<>>
    /\ decisions' = <<>>
    /\ implications' = <<>>
    /\ propIndex' = 0
    /\ clauses' = <<>>
    /\ UNCHANGED <<numDecisions, numImplications>>

\* line 177, var sv solver: every call of Solve builds its solver from the
\* zero value, no field comes from an earlier call and there is no package
\* variable
freshSolver ==
    /\ simpleSat' = unassigned
    /\ simplified' = <<>>
    /\ sourceVars' = <<>>
    /\ origVars' = <<>>
    /\ assignments' = <<>>
    /\ watches' = <<>>
    /\ unassignedHeap' = <<>>
    /\ decisions' = <<>>
    /\ implications' = <<>>
    /\ propIndex' = 0
    /\ clauses' = <<>>
    /\ numDecisions' = 0
    /\ numImplications' = 0

\* the caller, the last call having returned or its panic recovered, calls
\* Solve again, on arrays of its own
CallAgain ==
    /\ Finished
    /\ Len(earlier) < MaxCalls - 1
    /\ earlier' = Append(earlier, [problem |-> problem, outcome |-> callOutcome])
    /\ problem' \in CallProblems
    /\ mem' = [a \in 1..Len(problem') |-> problem'[a]]
    /\ pc' = "start"
    /\ freshSolver
    /\ ok' = FALSE
    /\ result' = NoResult
    /\ panicMsg' = ""
    /\ flips' = <<>>
    /\ UNCHANGED dimacsVars

CallsInit == InitWith(CallProblems) /\ DimacsIdle

CallsNext ==
    \/ Next
    \/ CallAgain

CallsSpec == CallsInit /\ [][CallsNext]_vars

C36_WitnessAfterPanic ==
    /\ pc = "done"
    /\ Len(earlier) = 1
    /\ earlier[1].problem # problem
    /\ earlier[1].outcome.pc = "panic"
    /\ earlier[1].outcome.numDecisions > 0

====
